---- MODULE Spec2Model ----
(***************************************************************************)
(* Verification model of the xv6 kernel subsystems of this repository.     *)
(*   BCACHE  kernel/bio.c     hash-bucketed block buffer cache             *)
(*   PMEM    kernel/kalloc.c  physical page allocator (LAB_PGTBL build)    *)
(*   NIC     kernel/e1000.c   transmit ring of the Ethernet driver, with   *)
(*                            its callers sys_send and arp_rx of net.c     *)
(*   NET     kernel/net.c     UDP sockets: bind, unbind, recv, ip_rx       *)
(*   MMAP    kernel/sysfile.c mmap, munmap and the mmap page-fault handler *)
(*   FSCALL  kernel/sysfile.c create, link and unlink                      *)
(*   RX      kernel/e1000.c   receive ring and e1000_recv, with net_rx,    *)
(*                            ip_rx and arp_rx of net.c and their locks    *)
(*   TXN     kernel/sysfile.c the return paths of the path system calls    *)
(*                            and of munmap: begin_op, end_op, inode locks *)
(* Every subsystem has its own specifications (SpecBcache; SpecPmem,       *)
(* SpecKfree; SpecNic; SpecNet, SpecBind, SpecNetFair; SpecMmap, SpecWb,   *)
(* SpecFault; SpecFs, SpecUnlink; SpecRx; SpecTxn); the variables of the   *)
(* other subsystems keep their initial values in them.  SpecSusp puts the  *)
(* blocking calls of BCACHE and NET side by side.                          *)
(***************************************************************************)
EXTENDS Integers, Sequences, FiniteSets, TLC

VARIABLES
  \* ---- BCACHE (kernel/bio.c) ----
  dev, blockno, valid, refcnt,  \* struct buf fields, per buffer
  next, prev,                   \* list links of buffers and bucket heads
  slock,                        \* buffer sleep-lock: holding thread or 0
  bklock,                       \* bucket spinlocks: holding thread or 0
  bclock,                       \* bcache.lock: holding thread or 0
  pc,                           \* position of every thread in bio.c
  req,                          \* arguments <<dev, blockno>> of the running bread
  lb,                           \* local b of the running call / the buffer held
  li,                           \* local i of bget's loop over the other buckets
  pins,                         \* the journal has pinned the buffer (bpin without bunpin)
  panicked,                     \* panic() has halted the kernel
  bgetValid,                    \* history: b->valid when bget returned to bread
  didRead,                      \* history: bread issued virtio_disk_rw(b, 0)
  readsSince,                   \* history: disk reads into b since its identity was set
  \* ---- PMEM (kernel/kalloc.c) ----
  kfreelist,                    \* kmem.freelist: address of the first free page or 0
  knext,                        \* the struct run at the start of every page: r->next
  kmemlock,                     \* kmem.lock: holding thread or 0
  kpc,                          \* position of every thread in kalloc.c
  kr,                           \* local r of kalloc / pa of kfree
  kheld,                        \* the pages every thread got from kalloc and has not freed
  superfreelist,                \* super_kmem.freelist: address of the first free superpage or 0
  supernext,                    \* the struct superrun at the start of every superpage: r->next
  supercount,                   \* super_kmem.count
  superheld,                    \* the superpages every thread got from superalloc and has not freed
  \* ---- NIC (kernel/e1000.c, sys_send and arp_rx of kernel/net.c) ----
  tx_ring,                      \* the TX descriptors: addr, length, cmd, status
  tx_bufs,                      \* the stashed buffer of every TX slot or 0
  regTDT, regTDH,               \* regs[E1000_TDT], regs[E1000_TDH]
  e1000_lock,                   \* holding thread or 0
  npc,                          \* position of every thread in sys_send / arp_rx / e1000_transmit
  ncaller,                      \* the caller of e1000_transmit: "send", "arp" or "none"
  nbuf,                         \* local buf: the page of the outgoing frame
  ninbuf,                       \* arp_rx's inbuf
  ntotal,                       \* the frame length passed to e1000_transmit
  ntdt,                         \* local tdt of e1000_transmit
  txret,                        \* what e1000_transmit returned to the thread
  sysret,                       \* what sys_send is about to return
  nfree,                        \* the free pages of the allocator
  seen_arp,                     \* static seen_arp of arp_rx
  npanicked,                    \* panic("send_arp_reply") has halted the kernel
  stalled,                      \* history: the device has not completed any descriptor
  ntx,                          \* history: number of e1000_transmit calls that took the lock
  txseq,                        \* history: the rank of the thread's e1000_transmit call
  badfree,                      \* history: kfree of a free page, or of a page the device owns
  \* ---- NET (kernel/net.c) ----
  sock_used, sock_port,         \* sockets[i].used, sockets[i].port
  sock_queue,                   \* sockets[i].queue: the linked packets, head first
  sock_qlen,                    \* sockets[i].queue_len
  netlock,                      \* holder of netlock: a thread, Irq or 0
  upc,                          \* position of every thread in sys_bind / sys_unbind / sys_recv
  uport,                        \* the port argument of the call
  usock,                        \* local sock of sys_recv: a socket index or -1
  upkt,                         \* local pkt of sys_recv
  uret,                         \* what the system call is about to return
  ipc,                          \* position of the interrupt path in ip_rx
  iport,                        \* dport of the frame ip_rx is handling
  ikind,                        \* what kind of frame ip_rx is handling
  sock_arrived,                 \* history: frames come for socket i in its opening burst
  sock_enq,                     \* history: packets ever queued on socket i
  lastrecv,                     \* history: the last packet dequeued from socket i
  deqEarly,                     \* history: the opening burst of socket i was broken
  netbufs,                      \* history: frame pages owned by the network stack
  netpkts,                      \* history: queue-entry pages allocated and not freed
  \* ---- MMAP (kernel/sysfile.c) ----
  vmas,                         \* p->vmas[NVMA]
  fref,                         \* f->ref of every open file
  present,                      \* the process's valid user PTEs above p->sz: page -> contents, flags
  mheld,                        \* pages the mmap code got from kalloc and has not freed
  fdata,                        \* contents of every file, one value per page-sized chunk
  mcall,                        \* history: the last call, its arguments and what it returned
  \* ---- FSCALL (kernel/sysfile.c) ----
  itype,                        \* ip->type of every inode, 0 for a free inode
  nlink,                        \* ip->nlink of every inode
  dirent,                       \* the root directory: name -> inode number, 0 for none
  subdir,                       \* a directory below the root: the inode of its entry "x", 0 for none
  fpc,                          \* position of every thread in sys_link
  flink,                        \* locals ip and new of every thread inside sys_link
  fcall,                        \* history: the last call that returned and its result
  \* ---- RX (kernel/e1000.c, kernel/net.c) ----
  rx_ring,                      \* receive descriptors: addr and status
  rx_bufs,                      \* the page posted in every receive slot
  regRDH, regRDT,               \* regs[E1000_RDH], regs[E1000_RDT]
  rpc,                          \* position of the interrupt thread
  rret,                         \* where it goes on after kalloc or kfree
  rslot, rbuf,                  \* locals rdt and buf of e1000_recv
  rarg,                         \* argument of kfree, result of kalloc
  rheld,                        \* the spinlocks the interrupt thread holds, oldest first
  rfree,                        \* the free pages of the allocator
  rqueue,                       \* the socket queue: <<frame page, entry page>> of every packet
  rxdata,                       \* the frame in every page: number of the frame, 0 for none
  rxseq,                        \* history: frames the device has received
  ndelivered,                   \* history: calls of net_rx
  rseen_arp,                    \* seen_arp of arp_rx
  rpanicked,                    \* panic() has halted the kernel
  \* ---- TXN (kernel/sysfile.c) ----
  logpc,                        \* the system call a process is in and its position
  outstanding,                  \* begin_op calls of the process without their end_op
  nbegin, nend,                 \* history: begin_op and end_op calls of this system call
  ilocked,                      \* the inodes the process holds locked: "ip", "dp"
  nmods,                        \* history: modifying inode operations of this call
  lastop                        \* history: the operation of the last step and its argument

bvars == <<dev, blockno, valid, refcnt, next, prev, slock, bklock, bclock, pc,
           req, lb, li, pins, panicked, bgetValid, didRead, readsSince>>

kvars == <<kfreelist, knext, kmemlock, kpc, kr, kheld,
           superfreelist, supernext, supercount, superheld>>

nvars == <<tx_ring, tx_bufs, regTDT, regTDH, e1000_lock, npc, ncaller, nbuf, ninbuf,
           ntotal, ntdt, txret, sysret, nfree, seen_arp, npanicked, stalled,
           ntx, txseq, badfree>>

uvars == <<sock_used, sock_port, sock_queue, sock_qlen, netlock, upc, uport, usock, upkt,
           uret, ipc, iport, ikind, sock_arrived, sock_enq, lastrecv, deqEarly, netbufs, netpkts>>

mvars == <<vmas, fref, present, mheld, fdata, mcall>>

fvars == <<itype, nlink, dirent, subdir, fpc, flink, fcall>>

rvars == <<rx_ring, rx_bufs, regRDH, regRDT, rpc, rret, rslot, rbuf, rarg, rheld, rfree,
           rqueue, rxdata, rxseq, ndelivered, rseen_arp, rpanicked>>

tvars == <<logpc, outstanding, nbegin, nend, ilocked, nmods, lastop>>

vars == <<bvars, kvars, nvars, uvars, mvars, fvars, rvars, tvars>>

\* What the operations of one subsystem leave alone: the other subsystems.
nonBcache == <<kvars, nvars, uvars, mvars, fvars, rvars, tvars>>
nonPmem == <<bvars, nvars, uvars, mvars, fvars, rvars, tvars>>
nonNic == <<bvars, kvars, uvars, mvars, fvars, rvars, tvars>>
nonNet == <<bvars, kvars, nvars, mvars, fvars, rvars, tvars>>
nonMmap == <<bvars, kvars, nvars, uvars, fvars, rvars, tvars>>
nonFs == <<bvars, kvars, nvars, uvars, mvars, rvars, tvars>>
nonRx == <<bvars, kvars, nvars, uvars, mvars, fvars, tvars>>
nonTxn == <<bvars, kvars, nvars, uvars, mvars, fvars, rvars>>

\* ------------------------------------------------------------------ bounds
NBUCKETS == 13
NBUF == 2
\* Two kernel threads on two cores; 0 stands for "no thread" in the lock fields.
Threads == {1, 2}
Bufs == 1..NBUF
Buckets == 0..(NBUCKETS - 1)
\* Block devices and block numbers the callers ask for: (1,12) hashes to bucket 0,
\* (1,0) and (1,13) both hash to bucket 1.
Devs == {1}
Blocks == {0, 12, 13}

\* ------------------------------------------------------------------ lists
\* Node ids: buffers are 1..NBUF, the head sentinel of bucket i is NBUF+1+i.
HeadOf(i) == NBUF + 1 + i
Nodes == 1..(NBUF + NBUCKETS)

\* (dev + blockno) % NBUCKETS; the uint sum does not wrap for the block numbers used.
hash(d, k) == (d + k) % NBUCKETS

RECURSIVE Walk(_, _, _, _)
\* The nodes a for-loop "for(b = start; b != &head; b = b->link)" visits.
Walk(n, h, link, fuel) ==
  IF n = h \/ fuel = 0 THEN <<>>
  ELSE <<n>> \o Walk(link[n], h, link, fuel - 1)

\* for(b = bucket->head.next; b != &bucket->head; b = b->next)
FwdList(i) == Walk(next[HeadOf(i)], HeadOf(i), next, NBUF + 1)
\* for(b = bucket->head.prev; b != &bucket->head; b = b->prev)
RevList(i) == Walk(prev[HeadOf(i)], HeadOf(i), prev, NBUF + 1)

SeqSet(s) == {s[j] : j \in 1..Len(s)}
MinOf(S) == CHOOSE x \in S : \A y \in S : x <= y

\* Mutant: the hit loop compares b->blockno with dev.
HitIn_bug(i, d, k) ==
  LET s == FwdList(i)
      idx == {j \in 1..Len(s) : dev[s[j]] = d /\ blockno[s[j]] = d}
  IN IF idx = {} THEN 0 ELSE s[MinOf(idx)]

\* First buffer of bucket i, head-first, with identity (d, k); 0 when there is none.
HitIn(i, d, k) ==
  LET s == FwdList(i)
      idx == {j \in 1..Len(s) : dev[s[j]] = d /\ blockno[s[j]] = k}
  IN IF idx = {} THEN 0 ELSE s[MinOf(idx)]

\* Mutant: the search takes the tail buffer without testing refcnt.
FreeIn_bug(i) ==
  LET s == RevList(i)
  IN IF s = <<>> THEN 0 ELSE s[1]

\* First buffer of bucket i, tail-first, with refcnt == 0; 0 when there is none.
FreeIn(i) ==
  LET s == RevList(i)
      idx == {j \in 1..Len(s) : refcnt[s[j]] = 0}
  IN IF idx = {} THEN 0 ELSE s[MinOf(idx)]

\* ------------------------------------------------------------------ binit
RECURSIVE binit_links(_, _)
\* The loop of binit: buffers 1..n pushed at the front of bucket 0.
binit_links(n, lk) ==
  IF n = 0 THEN lk
  ELSE LET l0 == binit_links(n - 1, lk)
           h == HeadOf(0)
           nx1 == [l0.next EXCEPT ![n] = l0.next[h]]
           pv1 == [l0.prev EXCEPT ![n] = h]
           pv2 == [pv1 EXCEPT ![nx1[h]] = n]
           nx2 == [nx1 EXCEPT ![h] = n]
       IN [next |-> nx2, prev |-> pv2]

binit == binit_links(NBUF, [next |-> [n \in Nodes |-> n], prev |-> [n \in Nodes |-> n]])

InitBcache ==
  /\ dev = [b \in Bufs |-> 0]
  /\ blockno = [b \in Bufs |-> 0]
  /\ valid = [b \in Bufs |-> 0]
  /\ refcnt = [b \in Bufs |-> 0]
  /\ next = binit.next
  /\ prev = binit.prev
  /\ slock = [b \in Bufs |-> 0]
  /\ bklock = [i \in Buckets |-> 0]
  /\ bclock = 0
  /\ pc = [t \in Threads |-> "idle"]
  /\ req = [t \in Threads |-> <<0, 0>>]
  /\ lb = [t \in Threads |-> 0]
  /\ li = [t \in Threads |-> 0]
  /\ pins = [b \in Bufs |-> FALSE]
  /\ panicked = FALSE
  /\ bgetValid = [t \in Threads |-> 0]
  /\ didRead = [t \in Threads |-> FALSE]
  /\ readsSince = [b \in Bufs |-> 0]

\* ------------------------------------------------------------------ bget
Tgt(t) == hash(req[t][1], req[t][2])

\* Mutant: the reassignment forgets b->valid = 0.
SetIdentity_bug(b, d, k) ==
  /\ dev' = [dev EXCEPT ![b] = d]
  /\ blockno' = [blockno EXCEPT ![b] = k]
  /\ valid' = valid
  /\ refcnt' = [refcnt EXCEPT ![b] = 1]
  /\ readsSince' = [readsSince EXCEPT ![b] = 0]

\* b->dev = dev; b->blockno = blockno; b->valid = 0; b->refcnt = 1;
SetIdentity(b, d, k) ==
  /\ dev' = [dev EXCEPT ![b] = d]
  /\ blockno' = [blockno EXCEPT ![b] = k]
  /\ valid' = [valid EXCEPT ![b] = 0]
  /\ refcnt' = [refcnt EXCEPT ![b] = 1]
  /\ readsSince' = [readsSince EXCEPT ![b] = 0]

KeepIdentity == UNCHANGED <<dev, blockno, valid, refcnt, readsSince>>

Goto(t, l) == pc' = [pc EXCEPT ![t] = l]

\* panic() halts the kernel: no thread takes a step afterwards.
At(t, l) == ~panicked /\ pc[t] = l

\* A caller that holds no buffer calls bread(d, k); bget computes its bucket.
bread_call(t) ==
  /\ At(t, "idle")
  /\ \E d \in Devs, k \in Blocks : req' = [req EXCEPT ![t] = <<d, k>>]
  /\ Goto(t, "bget_acq1")
  /\ UNCHANGED <<dev, blockno, valid, refcnt, next, prev, slock, bklock, bclock,
                 lb, li, pins, panicked, bgetValid, didRead, readsSince>>
  /\ UNCHANGED nonBcache

\* acquire(&bucket->lock) of the target bucket: line 86, 117 or 147.
bget_acquire(t) ==
  /\ ~panicked
  /\ pc[t] \in {"bget_acq1", "bget_acq2", "bget_acq3"}
  /\ bklock[Tgt(t)] = 0
  /\ bklock' = [bklock EXCEPT ![Tgt(t)] = t]
  /\ Goto(t, CASE pc[t] = "bget_acq1" -> "bget_scan1"
               [] pc[t] = "bget_acq2" -> "bget_scan2"
               [] pc[t] = "bget_acq3" -> "bget_link")
  /\ UNCHANGED <<dev, blockno, valid, refcnt, next, prev, slock, bclock,
                 req, lb, li, pins, panicked, bgetValid, didRead, readsSince>>
  /\ UNCHANGED nonBcache

\* Mutant: the bucket lock is not released after the first search.
scan1_unlock_bug(t) == bklock

\* Lines 92, 105, 110: release(&bucket->lock) on every way out of the first search.
scan1_unlock(t) == [bklock EXCEPT ![Tgt(t)] = 0]

\* Lines 88-110: the hit loop, then the tail-first search of the target bucket for
\* an unused buffer, all under the bucket lock, which every branch releases.
bget_scan1(t) ==
  /\ At(t, "bget_scan1")
  /\ LET h == Tgt(t)
         hit == HitIn(h, req[t][1], req[t][2])
         fr == FreeIn(h)
     IN IF hit # 0
        THEN /\ refcnt' = [refcnt EXCEPT ![hit] = @ + 1]
             /\ lb' = [lb EXCEPT ![t] = hit]
             /\ Goto(t, "bget_sleep")
             /\ UNCHANGED <<dev, blockno, valid, readsSince>>
        ELSE IF fr # 0
        THEN /\ SetIdentity(fr, req[t][1], req[t][2])
             /\ lb' = [lb EXCEPT ![t] = fr]
             /\ Goto(t, "bget_sleep")
        ELSE /\ KeepIdentity
             /\ Goto(t, "bget_acqg")
             /\ UNCHANGED lb
  /\ bklock' = scan1_unlock(t)
  /\ UNCHANGED <<next, prev, slock, bclock, req, li, pins, panicked, bgetValid, didRead>>
  /\ UNCHANGED nonBcache

\* Line 114: acquire(&bcache.lock).
bget_acquire_global(t) ==
  /\ At(t, "bget_acqg")
  /\ bclock = 0
  /\ bclock' = t
  /\ Goto(t, "bget_acq2")
  /\ UNCHANGED <<dev, blockno, valid, refcnt, next, prev, slock, bklock,
                 req, lb, li, pins, panicked, bgetValid, didRead, readsSince>>
  /\ UNCHANGED nonBcache

\* The loop header of lines 133-134: the bucket index after i that is not the
\* target bucket ("if(i == bucket_idx) continue;").
NextOther(i, tgt) == IF i + 1 = tgt THEN i + 2 ELSE i + 1

\* Lines 118-130: the target bucket is searched again for an unused buffer; when
\* there is none the loop over the other buckets starts at its first index.
bget_scan2(t) ==
  /\ At(t, "bget_scan2")
  /\ LET fr == FreeIn(Tgt(t))
     IN IF fr # 0
        THEN /\ SetIdentity(fr, req[t][1], req[t][2])
             /\ lb' = [lb EXCEPT ![t] = fr]
             /\ bclock' = 0
             /\ Goto(t, "bget_sleep")
             /\ UNCHANGED li
        ELSE /\ KeepIdentity
             /\ li' = [li EXCEPT ![t] = NextOther(-1, Tgt(t))]
             /\ Goto(t, "bget_acqo")
             /\ UNCHANGED <<lb, bclock>>
  /\ bklock' = [bklock EXCEPT ![Tgt(t)] = 0]
  /\ UNCHANGED <<next, prev, slock, req, pins, panicked, bgetValid, didRead>>
  /\ UNCHANGED nonBcache

\* Line 137: acquire(&other_bucket->lock).
bget_acquire_other(t) ==
  /\ At(t, "bget_acqo")
  /\ bklock[li[t]] = 0
  /\ bklock' = [bklock EXCEPT ![li[t]] = t]
  /\ Goto(t, "bget_scan3")
  /\ UNCHANGED <<dev, blockno, valid, refcnt, next, prev, slock, bclock,
                 req, lb, li, pins, panicked, bgetValid, didRead, readsSince>>
  /\ UNCHANGED nonBcache

\* Mutant: the unlink forgets b->prev->next = b->next.
Unlink_bug(b) ==
  /\ prev' = [prev EXCEPT ![next[b]] = prev[b]]
  /\ next' = next

\* Lines 142-143: b->next->prev = b->prev; b->prev->next = b->next;
Unlink(b) ==
  /\ prev' = [prev EXCEPT ![next[b]] = prev[b]]
  /\ next' = [next EXCEPT ![prev[b]] = next[b]]

\* Lines 139-167: bucket i is searched tail-first. An unused buffer is unlinked
\* and the lock of bucket i released. Without one the lock is released and the
\* loop goes on; after the last bucket bcache.lock is released and the kernel
\* panics ("bget: no buffers").
bget_scan3(t) ==
  /\ At(t, "bget_scan3")
  /\ LET b == FreeIn(li[t])
         n == NextOther(li[t], Tgt(t))
     IN IF b # 0
        THEN /\ Unlink(b)
             /\ lb' = [lb EXCEPT ![t] = b]
             /\ Goto(t, "bget_acq3")
             /\ UNCHANGED <<li, bclock, panicked>>
        ELSE IF n < NBUCKETS
        THEN /\ li' = [li EXCEPT ![t] = n]
             /\ Goto(t, "bget_acqo")
             /\ UNCHANGED <<next, prev, lb, bclock, panicked>>
        ELSE /\ bclock' = 0
             /\ panicked' = TRUE
             /\ Goto(t, "panic_bget")
             /\ UNCHANGED <<next, prev, lb, li>>
  /\ bklock' = [bklock EXCEPT ![li[t]] = 0]
  /\ UNCHANGED <<dev, blockno, valid, refcnt, slock,
                 req, pins, bgetValid, didRead, readsSince>>
  /\ UNCHANGED nonBcache

\* Lines 148-151: b->next = head.next; b->prev = &head; head.next->prev = b;
\* head.next = b;
LinkFront(b, h) ==
  LET nx1 == [next EXCEPT ![b] = next[h]]
      pv1 == [prev EXCEPT ![b] = h]
      pv2 == [pv1 EXCEPT ![nx1[h]] = b]
      nx2 == [nx1 EXCEPT ![h] = b]
  IN /\ next' = nx2
     /\ prev' = pv2

\* Lines 148-158: the unlinked buffer is pushed at the front of the target bucket
\* and given its identity; both locks are released and the loop is left.
bget_link(t) ==
  /\ At(t, "bget_link")
  /\ LinkFront(lb[t], HeadOf(Tgt(t)))
  /\ SetIdentity(lb[t], req[t][1], req[t][2])
  /\ bklock' = [bklock EXCEPT ![Tgt(t)] = 0]
  /\ bclock' = 0
  /\ li' = [li EXCEPT ![t] = 0]
  /\ Goto(t, "bget_sleep")
  /\ UNCHANGED <<slock, req, lb, pins, panicked, bgetValid, didRead>>
  /\ UNCHANGED nonBcache

\* acquiresleep(&b->lock); return b;  (lines 93, 106, 126, 159)
bget_sleep(t) ==
  /\ At(t, "bget_sleep")
  /\ slock[lb[t]] = 0
  /\ slock' = [slock EXCEPT ![lb[t]] = t]
  /\ bgetValid' = [bgetValid EXCEPT ![t] = valid[lb[t]]]
  /\ Goto(t, "bread_check")
  /\ UNCHANGED <<dev, blockno, valid, refcnt, next, prev, bklock, bclock,
                 req, lb, li, pins, panicked, didRead, readsSince>>
  /\ UNCHANGED nonBcache

\* ------------------------------------------------------------------ bread
\* Mutant: bread forgets b->valid = 1.
bread_valid_bug(b) == valid

\* Line 179: b->valid = 1;
bread_valid(b) == [valid EXCEPT ![b] = 1]

\* Lines 177-181: if(!b->valid) { virtio_disk_rw(b, 0); b->valid = 1; } return b;
bread_check(t) ==
  /\ At(t, "bread_check")
  /\ IF valid[lb[t]] = 0
     THEN /\ valid' = bread_valid(lb[t])
          /\ readsSince' = [readsSince EXCEPT ![lb[t]] = @ + 1]
          /\ didRead' = [didRead EXCEPT ![t] = TRUE]
     ELSE /\ didRead' = [didRead EXCEPT ![t] = FALSE]
          /\ UNCHANGED <<valid, readsSince>>
  /\ Goto(t, "hold")
  /\ UNCHANGED <<dev, blockno, refcnt, next, prev, slock, bklock, bclock,
                 req, lb, li, pins, panicked, bgetValid>>
  /\ UNCHANGED nonBcache

\* ------------------------------------------------------------------ brelse
\* Lines 197-200: the holder calls brelse(b); holdingsleep is checked and the
\* sleep-lock released.
brelse_call(t) ==
  /\ At(t, "hold")
  /\ IF slock[lb[t]] # t
     THEN /\ panicked' = TRUE
          /\ Goto(t, "panic_brelse")
          /\ UNCHANGED slock
     ELSE /\ slock' = [slock EXCEPT ![lb[t]] = 0]
          /\ Goto(t, "brelse_acq")
          /\ UNCHANGED panicked
  /\ UNCHANGED <<dev, blockno, valid, refcnt, next, prev, bklock, bclock,
                 req, lb, li, pins, bgetValid, didRead, readsSince>>
  /\ UNCHANGED nonBcache

\* The bucket of b: hash(b->dev, b->blockno), lines 202, 212, 222.
BucketOfBuf(b) == hash(dev[b], blockno[b])

\* acquire(&bucket->lock) in brelse, bpin and bunpin: lines 205, 215, 225.
ref_acquire(t) ==
  /\ ~panicked
  /\ pc[t] \in {"brelse_acq", "bpin_acq", "bunpin_acq"}
  /\ bklock[BucketOfBuf(lb[t])] = 0
  /\ bklock' = [bklock EXCEPT ![BucketOfBuf(lb[t])] = t]
  /\ Goto(t, CASE pc[t] = "brelse_acq" -> "brelse_dec"
               [] pc[t] = "bpin_acq" -> "bpin_inc"
               [] pc[t] = "bunpin_acq" -> "bunpin_dec")
  /\ UNCHANGED <<dev, blockno, valid, refcnt, next, prev, slock, bclock,
                 req, lb, li, pins, panicked, bgetValid, didRead, readsSince>>
  /\ UNCHANGED nonBcache

\* Lines 206-207: b->refcnt--; release(&bucket->lock); the caller no longer
\* uses the buffer.
brelse_dec(t) ==
  /\ At(t, "brelse_dec")
  /\ refcnt' = [refcnt EXCEPT ![lb[t]] = @ - 1]
  /\ bklock' = [bklock EXCEPT ![BucketOfBuf(lb[t])] = 0]
  /\ lb' = [lb EXCEPT ![t] = 0]
  /\ li' = [li EXCEPT ![t] = 0]
  /\ req' = [req EXCEPT ![t] = <<0, 0>>]
  /\ bgetValid' = [bgetValid EXCEPT ![t] = 0]
  /\ didRead' = [didRead EXCEPT ![t] = FALSE]
  /\ Goto(t, "idle")
  /\ UNCHANGED <<dev, blockno, valid, next, prev, slock, bclock,
                 pins, panicked, readsSince>>
  /\ UNCHANGED nonBcache

\* ------------------------------------------------------------------ bpin / bunpin
\* The journal pins a buffer it holds once per transaction (log_write absorbs a
\* block already in the log), and unpins a pinned buffer it holds (install_trans).
bpin_call(t) ==
  /\ At(t, "hold")
  /\ ~pins[lb[t]]
  /\ Goto(t, "bpin_acq")
  /\ UNCHANGED <<dev, blockno, valid, refcnt, next, prev, slock, bklock, bclock,
                 req, lb, li, pins, panicked, bgetValid, didRead, readsSince>>
  /\ UNCHANGED nonBcache

\* Lines 216-217: b->refcnt++; release(&bucket->lock);
bpin_inc(t) ==
  /\ At(t, "bpin_inc")
  /\ refcnt' = [refcnt EXCEPT ![lb[t]] = @ + 1]
  /\ pins' = [pins EXCEPT ![lb[t]] = TRUE]
  /\ bklock' = [bklock EXCEPT ![BucketOfBuf(lb[t])] = 0]
  /\ Goto(t, "hold")
  /\ UNCHANGED <<dev, blockno, valid, next, prev, slock, bclock,
                 req, lb, li, panicked, bgetValid, didRead, readsSince>>
  /\ UNCHANGED nonBcache

bunpin_call(t) ==
  /\ At(t, "hold")
  /\ pins[lb[t]]
  /\ Goto(t, "bunpin_acq")
  /\ UNCHANGED <<dev, blockno, valid, refcnt, next, prev, slock, bklock, bclock,
                 req, lb, li, pins, panicked, bgetValid, didRead, readsSince>>
  /\ UNCHANGED nonBcache

\* Lines 226-227: b->refcnt--; release(&bucket->lock);
bunpin_dec(t) ==
  /\ At(t, "bunpin_dec")
  /\ refcnt' = [refcnt EXCEPT ![lb[t]] = @ - 1]
  /\ pins' = [pins EXCEPT ![lb[t]] = FALSE]
  /\ bklock' = [bklock EXCEPT ![BucketOfBuf(lb[t])] = 0]
  /\ Goto(t, "hold")
  /\ UNCHANGED <<dev, blockno, valid, next, prev, slock, bclock,
                 req, lb, li, panicked, bgetValid, didRead, readsSince>>
  /\ UNCHANGED nonBcache

\* ================================================================== PMEM
\* Physical memory of the LAB_PGTBL build, sizes in bytes: the kernel image ends at
\* KEnd, a little below a 2 MiB boundary, so that whole 4 KiB pages lie between
\* end and the superpage area; NFRAMES whole pages lie between the superpage area
\* and PHYSTOP.
PGSIZE == 4096
SUPERPGSIZE == 512 * PGSIZE
NSUPERPAGES == 8
KEnd == 2092000
NFRAMES == 1
\* How many superpages one thread holds at a time.
MaxSuperHeld == 1

PGROUNDUP(a) == ((a + PGSIZE - 1) \div PGSIZE) * PGSIZE
SUPERPGROUNDUP(a) == ((a + SUPERPGSIZE - 1) \div SUPERPGSIZE) * SUPERPGSIZE
PHYSTOP == SUPERPGROUNDUP(KEnd) + NSUPERPAGES * SUPERPGSIZE + NFRAMES * PGSIZE

\* The first word of a page after memset(pa, 1, PGSIZE) and memset(r, 5, PGSIZE).
Junk1 == -1
Junk5 == -5

\* Memory holds a word at every address that has been written: m with m[a] = v.
MemWrite(m, a, v) == [x \in (DOMAIN m) \cup {a} |-> IF x = a THEN v ELSE m[x]]

\* kfree's test: a misaligned address, one below end or one at or above PHYSTOP.
kfree_invalid(pa) == (pa % PGSIZE) # 0 \/ pa < KEnd \/ pa >= PHYSTOP

\* superfree's test, line 155.
superfree_invalid(pa) == (pa % SUPERPGSIZE) # 0 \/ pa < KEnd \/ pa >= PHYSTOP

\* Lines 103-104: r->next = kmem.freelist; kmem.freelist = r;
kmem_push(st, pa) ==
  [st EXCEPT !.freelist = pa, !.next = MemWrite(st.next, pa, st.freelist)]

\* Lines 59-62 and 164-166: r->next = super_kmem.freelist; super_kmem.freelist = r;
\* super_kmem.count++;
super_push(st, pa) ==
  [st EXCEPT !.superfreelist = pa,
             !.supernext = MemWrite(st.supernext, pa, st.superfreelist),
             !.count = st.count + 1]

RECURSIVE freerange_loop(_, _, _)
\* for(; p + PGSIZE <= (char*)pa_end; p += PGSIZE) kfree(p);
freerange_loop(p, pa_end, st) ==
  IF p + PGSIZE <= pa_end
  THEN freerange_loop(p + PGSIZE, pa_end, kmem_push(st, p))
  ELSE st

freerange(pa_start, pa_end, st) == freerange_loop(PGROUNDUP(pa_start), pa_end, st)

RECURSIVE kinit_super_loop(_, _, _)
\* Line 58: for(uint64 pa = super_start; pa < super_end; pa += SUPERPGSIZE)
kinit_super_loop(pa, super_end, st) ==
  IF pa < super_end
  THEN kinit_super_loop(pa + SUPERPGSIZE, super_end, super_push(st, pa))
  ELSE st

\* Mutant: the superpage area is taken one page shorter than the loop fills it.
kinit_super_end_bug(super_start) == super_start + NSUPERPAGES * SUPERPGSIZE - PGSIZE

\* Line 53: super_end = super_start + NSUPERPAGES * SUPERPGSIZE;
kinit_super_end(super_start) == super_start + NSUPERPAGES * SUPERPGSIZE

\* kinit of the LAB_PGTBL build, lines 47-70, on empty lists.
kinit ==
  LET st0 == [freelist |-> 0, next |-> <<>>,
              superfreelist |-> 0, supernext |-> <<>>, count |-> 0]
      super_start == SUPERPGROUNDUP(KEnd)
      super_end == kinit_super_end(super_start)
  IN IF super_end <= PHYSTOP
     THEN freerange(super_end, PHYSTOP,
            freerange(KEnd, super_start,
              kinit_super_loop(super_start, super_end, st0)))
     ELSE freerange(KEnd, PHYSTOP, st0)

InitPmem ==
  /\ kfreelist = kinit.freelist
  /\ knext = kinit.next
  /\ kmemlock = 0
  /\ kpc = [t \in Threads |-> "idle"]
  /\ kr = [t \in Threads |-> 0]
  /\ kheld = [t \in Threads |-> {}]
  /\ superfreelist = kinit.superfreelist
  /\ supernext = kinit.supernext
  /\ supercount = kinit.count
  /\ superheld = [t \in Threads |-> {}]

\* What the operations on one pool leave alone: the other pool.
superpool == <<superfreelist, supernext, supercount, superheld>>
pagepool == <<kfreelist, knext, kmemlock, kheld>>

KGoto(t, l) == kpc' = [kpc EXCEPT ![t] = l]

\* panic() halts the kernel: no thread takes a step in kalloc.c afterwards.
KRunning == \A u \in Threads : kpc[u] \notin {"panic_kfree", "panic_superfree"}
KAt(t, l) == KRunning /\ kpc[t] = l

\* A thread calls kalloc().
kalloc_call(t) ==
  /\ KAt(t, "idle")
  /\ KGoto(t, "kalloc_acq")
  /\ UNCHANGED <<kfreelist, knext, kmemlock, kr, kheld>>
  /\ UNCHANGED superpool
  /\ UNCHANGED nonPmem

\* acquire(&kmem.lock): lines 102 and 116.
kmem_acquire(t) ==
  /\ KRunning
  /\ kpc[t] \in {"kalloc_acq", "kfree_acq"}
  /\ kmemlock = 0
  /\ kmemlock' = t
  /\ KGoto(t, IF kpc[t] = "kalloc_acq" THEN "kalloc_pop" ELSE "kfree_push")
  /\ UNCHANGED <<kfreelist, knext, kr, kheld>>
  /\ UNCHANGED superpool
  /\ UNCHANGED nonPmem

\* Mutant: kalloc leaves kmem.freelist at the page it returns.
kalloc_newhead_bug(r) == r

\* Line 119: kmem.freelist = r->next;
kalloc_newhead(r) == knext[r]

\* Lines 117-120: r = kmem.freelist; if(r) kmem.freelist = r->next; release.
kalloc_pop(t) ==
  /\ KAt(t, "kalloc_pop")
  /\ kr' = [kr EXCEPT ![t] = kfreelist]
  /\ kfreelist' = IF kfreelist # 0 THEN kalloc_newhead(kfreelist) ELSE kfreelist
  /\ kmemlock' = 0
  /\ KGoto(t, "kalloc_ret")
  /\ UNCHANGED <<knext, kheld>>
  /\ UNCHANGED superpool
  /\ UNCHANGED nonPmem

\* Lines 122-124: if(r) memset((char*)r, 5, PGSIZE); return (void*)r;
kalloc_ret(t) ==
  /\ KAt(t, "kalloc_ret")
  /\ IF kr[t] # 0
     THEN /\ knext' = [knext EXCEPT ![kr[t]] = Junk5]
          /\ kheld' = [kheld EXCEPT ![t] = @ \cup {kr[t]}]
     ELSE UNCHANGED <<knext, kheld>>
  /\ kr' = [kr EXCEPT ![t] = 0]
  /\ KGoto(t, "idle")
  /\ UNCHANGED <<kfreelist, kmemlock>>
  /\ UNCHANGED superpool
  /\ UNCHANGED nonPmem

\* Addresses no caller holds that a faulty caller passes to kfree: inside a page,
\* the page below end, PHYSTOP and the page above it.
KBadArgs == {PGROUNDUP(KEnd) + 8, PGROUNDUP(KEnd) - PGSIZE, PHYSTOP, PHYSTOP + PGSIZE}

\* Mutant: kfree does not compare pa with end.
kfree_test_bug(pa) == (pa % PGSIZE) # 0 \/ pa >= PHYSTOP

\* Line 94: the condition of kfree's if.
kfree_test(pa) == kfree_invalid(pa)

\* Lines 94-100: kfree(pa) for a pa of S; the address is tested and the page
\* filled with junk.
kfree_entry(t, S) ==
  /\ KAt(t, "idle")
  /\ \E pa \in S :
       /\ kheld' = [kheld EXCEPT ![t] = @ \ {pa}]
       /\ kr' = [kr EXCEPT ![t] = pa]
       /\ IF kfree_test(pa)
          THEN /\ KGoto(t, "panic_kfree")
               /\ UNCHANGED knext
          ELSE /\ knext' = MemWrite(knext, pa, Junk1)
               /\ KGoto(t, "kfree_acq")
  /\ UNCHANGED <<kfreelist, kmemlock>>
  /\ UNCHANGED superpool
  /\ UNCHANGED nonPmem

\* A thread passes a page it holds to kfree.
kfree_call(t) == kfree_entry(t, kheld[t])

\* A thread passes a page it holds, or an address of KBadArgs, to kfree.
kfree_any(t) == kfree_entry(t, kheld[t] \cup KBadArgs)

\* Lines 103-105: r->next = kmem.freelist; kmem.freelist = r; release.
kfree_push(t) ==
  /\ KAt(t, "kfree_push")
  /\ LET st == kmem_push([freelist |-> kfreelist, next |-> knext], kr[t])
     IN /\ kfreelist' = st.freelist
        /\ knext' = st.next
  /\ kmemlock' = 0
  /\ kr' = [kr EXCEPT ![t] = 0]
  /\ KGoto(t, "idle")
  /\ UNCHANGED kheld
  /\ UNCHANGED superpool
  /\ UNCHANGED nonPmem

\* Lines 136-142, called by a thread that holds fewer than MaxSuperHeld superpages:
\* acquire; r = super_kmem.freelist; if(r) { super_kmem.freelist = r->next;
\* super_kmem.count--; } release. super_kmem.lock, which nothing else is taken
\* under, makes the section one step.
superalloc_pop(t) ==
  /\ KAt(t, "idle")
  /\ Cardinality(superheld[t]) < MaxSuperHeld
  /\ kr' = [kr EXCEPT ![t] = superfreelist]
  /\ IF superfreelist # 0
     THEN /\ superfreelist' = supernext[superfreelist]
          /\ supercount' = supercount - 1
     ELSE UNCHANGED <<superfreelist, supercount>>
  /\ KGoto(t, "superalloc_ret")
  /\ UNCHANGED <<supernext, superheld>>
  /\ UNCHANGED pagepool
  /\ UNCHANGED nonPmem

\* Lines 144-146: if(r) memset((char*)r, 5, SUPERPGSIZE); return (void*)r;
superalloc_ret(t) ==
  /\ KAt(t, "superalloc_ret")
  /\ IF kr[t] # 0
     THEN /\ supernext' = MemWrite(supernext, kr[t], Junk5)
          /\ superheld' = [superheld EXCEPT ![t] = @ \cup {kr[t]}]
     ELSE UNCHANGED <<supernext, superheld>>
  /\ kr' = [kr EXCEPT ![t] = 0]
  /\ KGoto(t, "idle")
  /\ UNCHANGED <<superfreelist, supercount>>
  /\ UNCHANGED pagepool
  /\ UNCHANGED nonPmem

\* Lines 155-161: a thread passes a superpage it holds to superfree; the address is
\* tested and the superpage filled with junk.
superfree_call(t) ==
  /\ KAt(t, "idle")
  /\ \E pa \in superheld[t] :
       /\ superheld' = [superheld EXCEPT ![t] = @ \ {pa}]
       /\ kr' = [kr EXCEPT ![t] = pa]
       /\ IF superfree_invalid(pa)
          THEN /\ KGoto(t, "panic_superfree")
               /\ UNCHANGED supernext
          ELSE /\ supernext' = MemWrite(supernext, pa, Junk1)
               /\ KGoto(t, "superfree_push")
  /\ UNCHANGED <<superfreelist, supercount>>
  /\ UNCHANGED pagepool
  /\ UNCHANGED nonPmem

\* Lines 163-167: acquire; r->next = super_kmem.freelist; super_kmem.freelist = r;
\* super_kmem.count++; release, in one step as in superalloc.
superfree_push(t) ==
  /\ KAt(t, "superfree_push")
  /\ LET st == super_push([superfreelist |-> superfreelist, supernext |-> supernext,
                           count |-> supercount], kr[t])
     IN /\ superfreelist' = st.superfreelist
        /\ supernext' = st.supernext
        /\ supercount' = st.count
  /\ kr' = [kr EXCEPT ![t] = 0]
  /\ KGoto(t, "idle")
  /\ UNCHANGED superheld
  /\ UNCHANGED pagepool
  /\ UNCHANGED nonPmem

\* ================================================================== NIC
TX_RING_SIZE == 16
E1000_TXD_STAT_DD == 1
E1000_TXD_CMD_EOP == 1
E1000_TXD_CMD_RS == 8
\* sizeof(struct eth) + sizeof(struct ip) + sizeof(struct udp) = 14 + 20 + 8
UdpHeaders == 42
\* sizeof(struct eth) + sizeof(struct arp) = 14 + 28
ArpFrameLen == 42
\* How many calls of e1000_transmit are made, and how many pages the allocator has.
MaxTx == 18
NPAGES == 18

TxSlots == 0..(TX_RING_SIZE - 1)
NicPages == 1..NPAGES
\* The page of the receive ring (e1000.c line 56) in which the ARP frame arrives.
RxPage == NPAGES
\* The len argument of send: a short payload and one that does not fit a page.
SendLens == {8, PGSIZE}

\* (status & E1000_TXD_STAT_DD) != 0
HasDD(status) == (status \div E1000_TXD_STAT_DD) % 2 = 1

\* e1000_init, lines 42-51, and the allocator with all its pages free.
InitNic ==
  /\ tx_ring = [i \in TxSlots |->
                  [addr |-> 0, length |-> 0, cmd |-> 0, status |-> E1000_TXD_STAT_DD]]
  /\ tx_bufs = [i \in TxSlots |-> 0]
  /\ regTDT = 0
  /\ regTDH = 0
  /\ e1000_lock = 0
  /\ npc = [t \in Threads |-> "idle"]
  /\ ncaller = [t \in Threads |-> "none"]
  /\ nbuf = [t \in Threads |-> 0]
  /\ ninbuf = [t \in Threads |-> 0]
  /\ ntotal = [t \in Threads |-> 0]
  /\ ntdt = [t \in Threads |-> 0]
  /\ txret = [t \in Threads |-> 0]
  /\ sysret = [t \in Threads |-> 0]
  /\ nfree = NicPages \ {RxPage}
  /\ seen_arp = 0
  /\ npanicked = FALSE
  /\ stalled = TRUE
  /\ ntx = 0
  /\ txseq = [t \in Threads |-> 0]
  /\ badfree = FALSE

NGoto(t, l) == npc' = [npc EXCEPT ![t] = l]
NAt(t, l) == ~npanicked /\ npc[t] = l

\* A page the device may still read: the address of a descriptor without DD.
DeviceOwns(p) == \E i \in TxSlots : tx_ring[i].addr = p /\ ~HasDD(tx_ring[i].status)

\* kfree(p) by the network code: p is free again; freeing a free page or one the
\* device owns is recorded.
nic_kfree(p) ==
  /\ nfree' = nfree \cup {p}
  /\ badfree' = (badfree \/ p \in nfree \/ DeviceOwns(p))

\* kalloc() hands out a free page, here the lowest one.
nic_kalloc == MinOf(nfree)

\* The locals of a call, forgotten when it returns.
nic_return(t) ==
  /\ ncaller' = [ncaller EXCEPT ![t] = "none"]
  /\ nbuf' = [nbuf EXCEPT ![t] = 0]
  /\ ninbuf' = [ninbuf EXCEPT ![t] = 0]
  /\ ntotal' = [ntotal EXCEPT ![t] = 0]
  /\ ntdt' = [ntdt EXCEPT ![t] = 0]
  /\ txret' = [txret EXCEPT ![t] = 0]
  /\ sysret' = [sysret EXCEPT ![t] = 0]
  /\ txseq' = [txseq EXCEPT ![t] = 0]

\* Mutant: the ring is never found full.
tx_ring_full_bug(tdt) == FALSE

\* e1000.c line 112: (tx_ring[tdt].status & E1000_TXD_STAT_DD) == 0
tx_ring_full(tdt) == ~HasDD(tx_ring[tdt].status)

\* e1000.c lines 105-116: acquire(&e1000_lock); tdt = regs[E1000_TDT]; a tail slot
\* without DD: release and return -1.
tx_check(t) ==
  /\ e1000_lock = 0
  /\ ntx' = ntx + 1
  /\ txseq' = [txseq EXCEPT ![t] = ntx + 1]
  /\ ntdt' = [ntdt EXCEPT ![t] = regTDT]
  /\ IF tx_ring_full(regTDT)
     THEN /\ txret' = [txret EXCEPT ![t] = -1]
          /\ NGoto(t, "tx_done")
          /\ UNCHANGED e1000_lock
     ELSE /\ e1000_lock' = t
          /\ NGoto(t, "tx_fill")
          /\ UNCHANGED txret

\* net.c lines 250-296 and the start of e1000_transmit: send(sport, dst, dport,
\* buf, len). total > PGSIZE fails; buf = kalloc(), a null buf fails; the headers
\* are built; when copyin of the payload fails buf is freed again and send fails;
\* else e1000_transmit(buf, total) is called. Before it takes e1000_lock the call
\* touches nothing but its own page, so it is one step with taking the lock.
send_call(t) ==
  /\ NAt(t, "idle")
  /\ ntx < MaxTx
  /\ ncaller' = [ncaller EXCEPT ![t] = "send"]
  /\ \E len \in SendLens, copyin_ok \in BOOLEAN :
       LET total == len + UdpHeaders
       IN IF total > PGSIZE \/ nfree = {} \/ ~copyin_ok
          THEN /\ sysret' = [sysret EXCEPT ![t] = -1]
               /\ NGoto(t, "send_ret")
               /\ UNCHANGED <<ntotal, nbuf, nfree, e1000_lock, ntx, txseq, ntdt, txret>>
          ELSE /\ ntotal' = [ntotal EXCEPT ![t] = total]
               /\ nbuf' = [nbuf EXCEPT ![t] = nic_kalloc]
               /\ nfree' = nfree \ {nic_kalloc}
               /\ tx_check(t)
               /\ UNCHANGED sysret
  /\ UNCHANGED <<tx_ring, tx_bufs, regTDT, regTDH, ninbuf, seen_arp, npanicked, stalled,
                 badfree>>
  /\ UNCHANGED nonNic

\* e1000.c lines 119-136: free the buffer stashed in the slot, fill the descriptor,
\* stash buf, advance TDT, release, return 0.
tx_fill(t) ==
  /\ NAt(t, "tx_fill")
  /\ LET i == ntdt[t]
     IN /\ IF tx_bufs[i] # 0
           THEN nic_kfree(tx_bufs[i])
           ELSE UNCHANGED <<nfree, badfree>>
        /\ tx_ring' = [tx_ring EXCEPT ![i] =
                         [addr |-> nbuf[t], length |-> ntotal[t],
                          cmd |-> E1000_TXD_CMD_EOP + E1000_TXD_CMD_RS, status |-> 0]]
        /\ tx_bufs' = [tx_bufs EXCEPT ![i] = nbuf[t]]
        /\ regTDT' = (i + 1) % TX_RING_SIZE
  /\ e1000_lock' = 0
  /\ txret' = [txret EXCEPT ![t] = 0]
  /\ NGoto(t, "tx_done")
  /\ UNCHANGED <<regTDH, ncaller, nbuf, ninbuf, ntotal, ntdt, sysret, seen_arp, npanicked,
                 stalled, ntx, txseq>>
  /\ UNCHANGED nonNic

\* net.c lines 296-298: e1000_transmit(buf, total); return 0;
send_after(t) ==
  /\ NAt(t, "tx_done")
  /\ ncaller[t] = "send"
  /\ sysret' = [sysret EXCEPT ![t] = 0]
  /\ NGoto(t, "send_ret")
  /\ UNCHANGED <<tx_ring, tx_bufs, regTDT, regTDH, e1000_lock, ncaller, nbuf, ninbuf,
                 ntotal, ntdt, txret, nfree, seen_arp, npanicked, stalled, ntx,
                 txseq, badfree>>
  /\ UNCHANGED nonNic

\* sys_send returns to user space with sysret.
send_ret(t) ==
  /\ NAt(t, "send_ret")
  /\ nic_return(t)
  /\ NGoto(t, "idle")
  /\ UNCHANGED <<tx_ring, tx_bufs, regTDT, regTDH, e1000_lock, nfree, seen_arp, npanicked,
                 stalled, ntx, badfree>>
  /\ UNCHANGED nonNic

\* net.c lines 397-432 and the start of e1000_transmit: the interrupt path hands a
\* received ARP frame, in a page inbuf of its own, to arp_rx on a CPU that is not
\* inside a call. A second ARP frame is freed at once; for the first one buf =
\* kalloc(), a null buf panics, the reply is built and e1000_transmit is called.
arp_rx(t) ==
  /\ NAt(t, "idle")
  /\ ntx < MaxTx
  /\ IF seen_arp # 0
     THEN UNCHANGED <<npc, ncaller, nbuf, ninbuf, ntotal, nfree, seen_arp, npanicked,
                      e1000_lock, ntx, txseq, ntdt, txret>>
     ELSE /\ seen_arp' = 1
          /\ ncaller' = [ncaller EXCEPT ![t] = "arp"]
          /\ ninbuf' = [ninbuf EXCEPT ![t] = RxPage]
          /\ IF nfree = {}
             THEN /\ npanicked' = TRUE
                  /\ NGoto(t, "panic_arp")
                  /\ UNCHANGED <<nbuf, ntotal, nfree, e1000_lock, ntx, txseq, ntdt, txret>>
             ELSE /\ nbuf' = [nbuf EXCEPT ![t] = nic_kalloc]
                  /\ ntotal' = [ntotal EXCEPT ![t] = ArpFrameLen]
                  /\ nfree' = nfree \ {nic_kalloc}
                  /\ tx_check(t)
                  /\ UNCHANGED npanicked
  /\ UNCHANGED <<tx_ring, tx_bufs, regTDT, regTDH, sysret, stalled, badfree>>
  /\ UNCHANGED nonNic

\* net.c lines 432-434: e1000_transmit(buf, ...); kfree(inbuf);
arp_after(t) ==
  /\ NAt(t, "tx_done")
  /\ ncaller[t] = "arp"
  /\ nic_kfree(ninbuf[t])
  /\ nic_return(t)
  /\ NGoto(t, "idle")
  /\ UNCHANGED <<tx_ring, tx_bufs, regTDT, regTDH, e1000_lock, seen_arp, npanicked,
                 stalled, ntx>>
  /\ UNCHANGED nonNic

\* The device finishes the oldest descriptor it was given: it sets DD in its status
\* (the RS command bit asks for it) and moves TDH to the next one.
nic_complete ==
  /\ ~npanicked
  /\ ~HasDD(tx_ring[regTDH].status)
  /\ tx_ring' = [tx_ring EXCEPT ![regTDH].status = @ + E1000_TXD_STAT_DD]
  /\ regTDH' = (regTDH + 1) % TX_RING_SIZE
  /\ stalled' = FALSE
  /\ UNCHANGED <<tx_bufs, regTDT, e1000_lock, npc, ncaller, nbuf, ninbuf, ntotal, ntdt,
                 txret, sysret, nfree, seen_arp, npanicked, ntx, txseq, badfree>>
  /\ UNCHANGED nonNic

\* ================================================================== NET
SOCK_MAX == 16
QUEUE_MAX == 16
\* How many packets are ever queued.
MaxQueued == 18

Socks == 0..(SOCK_MAX - 1)
\* The interrupt path as a holder of netlock.
Irq == 3
\* The port the processes receive on.
Port == 2000
\* The port arguments of bind in the socket scenarios, of recv, and the
\* destination ports of arriving frames.
\* The payload length of the datagrams that arrive.
RxPayloadLen == 4
BindPorts == {Port}
RecvPorts == {-1, Port}
RxPorts == {Port}
\* The frames handed to ip_rx: a UDP datagram, another IP protocol, and a frame too
\* short for a UDP header.
RxKinds == {"udp", "notudp", "short"}

\* netinit, lines 46-54.
InitNet ==
  /\ sock_used = [i \in Socks |-> 0]
  /\ sock_port = [i \in Socks |-> 0]
  /\ sock_queue = [i \in Socks |-> <<>>]
  /\ sock_qlen = [i \in Socks |-> 0]
  /\ netlock = 0
  /\ upc = [t \in Threads |-> "idle"]
  /\ uport = [t \in Threads |-> 0]
  /\ usock = [t \in Threads |-> -1]
  /\ upkt = [t \in Threads |-> 0]
  /\ uret = [t \in Threads |-> 0]
  /\ ipc = "idle"
  /\ iport = 0
  /\ ikind = "none"
  /\ sock_arrived = [i \in Socks |-> 0]
  /\ sock_enq = [i \in Socks |-> 0]
  /\ lastrecv = [i \in Socks |-> 0]
  /\ deqEarly = [i \in Socks |-> FALSE]
  /\ netbufs = 0
  /\ netpkts = 0

UGoto(t, l) == upc' = [upc EXCEPT ![t] = l]

\* The loops of lines 76, 154 and 334: the first socket in use with the port, or -1.
FindSock(port) ==
  LET S == {i \in Socks : sock_used[i] # 0 /\ sock_port[i] = port}
  IN IF S = {} THEN -1 ELSE MinOf(S)

\* The loop of line 84: the first socket not in use, or -1.
FreeSock ==
  LET S == {i \in Socks : sock_used[i] = 0}
  IN IF S = {} THEN -1 ELSE MinOf(S)

\* acquire(&netlock) by a thread: lines 73 and 151, and the re-acquire at the end
\* of sleep (line 168).
net_acquire(t) ==
  /\ upc[t] \in {"bind_acq", "recv_acq", "recv_woken"}
  /\ netlock = 0
  /\ netlock' = t
  /\ UGoto(t, CASE upc[t] = "bind_acq" -> "bind_scan"
                [] upc[t] = "recv_acq" -> "recv_find"
                [] upc[t] = "recv_woken" -> "recv_loop")
  /\ UNCHANGED <<sock_used, sock_port, sock_queue, sock_qlen, uport, usock, upkt, uret,
                 ipc, iport, ikind, sock_arrived, sock_enq, lastrecv, deqEarly, netbufs, netpkts>>
  /\ UNCHANGED nonNet

\* Lines 66-71: bind(port) for a port of S; a port outside 0..65535 fails.
bind_entry(t, S) ==
  /\ upc[t] = "idle"
  /\ \E port \in S :
       /\ uport' = [uport EXCEPT ![t] = port]
       /\ IF port < 0 \/ port > 65535
          THEN /\ uret' = [uret EXCEPT ![t] = -1]
               /\ UGoto(t, "bind_ret")
          ELSE /\ UGoto(t, "bind_acq")
               /\ UNCHANGED uret
  /\ UNCHANGED <<sock_used, sock_port, sock_queue, sock_qlen, netlock, usock, upkt,
                 ipc, iport, ikind, sock_arrived, sock_enq, lastrecv, deqEarly, netbufs, netpkts>>
  /\ UNCHANGED nonNet

bind_call(t) == bind_entry(t, BindPorts)

\* The ports that fill the socket table: the next one not yet asked for.
FillPort == 3000 + Cardinality({i \in Socks : sock_used[i] # 0})

\* bind with any port argument: out of range on either side, Port, and, in the
\* first thread, the next port that fills the table.
bind_any(t) == bind_entry(t, {-1, 65536, Port} \cup (IF t = MinOf(Threads) THEN {FillPort} ELSE {}))

\* Mutant: bind does not look for a socket already bound to the port.
bind_bound_bug(port) == FALSE

\* Lines 76-81: some socket in use has the port.
bind_bound(port) == FindSock(port) # -1

\* Lines 76-96, under netlock: a port already bound fails; else the first unused
\* socket is taken; with none bind fails.
bind_scan(t) ==
  /\ upc[t] = "bind_scan"
  /\ IF bind_bound(uport[t]) \/ FreeSock = -1
     THEN /\ uret' = [uret EXCEPT ![t] = -1]
          /\ UNCHANGED <<sock_used, sock_port, sock_queue, sock_qlen>>
     ELSE /\ sock_used' = [sock_used EXCEPT ![FreeSock] = 1]
          /\ sock_port' = [sock_port EXCEPT ![FreeSock] = uport[t]]
          /\ sock_queue' = [sock_queue EXCEPT ![FreeSock] = <<>>]
          /\ sock_qlen' = [sock_qlen EXCEPT ![FreeSock] = 0]
          /\ uret' = [uret EXCEPT ![t] = 0]
  /\ netlock' = 0
  /\ UGoto(t, "bind_ret")
  /\ UNCHANGED <<uport, usock, upkt, ipc, iport, ikind, sock_arrived, sock_enq, lastrecv, deqEarly,
                 netbufs, netpkts>>
  /\ UNCHANGED nonNet

\* Lines 104-112: unbind(port) returns 0.
unbind_call(t) ==
  /\ upc[t] = "idle"
  /\ \E port \in BindPorts : uport' = [uport EXCEPT ![t] = port]
  /\ uret' = [uret EXCEPT ![t] = 0]
  /\ UGoto(t, "unbind_ret")
  /\ UNCHANGED <<sock_used, sock_port, sock_queue, sock_qlen, netlock, usock, upkt,
                 ipc, iport, ikind, sock_arrived, sock_enq, lastrecv, deqEarly, netbufs, netpkts>>
  /\ UNCHANGED nonNet

\* A system call returns to user space.
sys_ret(t) ==
  /\ upc[t] \in {"bind_ret", "unbind_ret", "recv_ret"}
  /\ uport' = [uport EXCEPT ![t] = 0]
  /\ usock' = [usock EXCEPT ![t] = -1]
  /\ upkt' = [upkt EXCEPT ![t] = 0]
  /\ uret' = [uret EXCEPT ![t] = 0]
  /\ UGoto(t, "idle")
  /\ UNCHANGED <<sock_used, sock_port, sock_queue, sock_qlen, netlock, ipc, iport, ikind,
                 sock_arrived, sock_enq, lastrecv, deqEarly, netbufs, netpkts>>
  /\ UNCHANGED nonNet

\* Lines 129-149: recv(dport, ...); arguments out of range fail.
recv_call(t) ==
  /\ upc[t] = "idle"
  /\ \E dport \in RecvPorts :
       /\ uport' = [uport EXCEPT ![t] = dport]
       /\ IF dport < 0 \/ dport > 65535
          THEN /\ uret' = [uret EXCEPT ![t] = -1]
               /\ UGoto(t, "recv_ret")
          ELSE /\ UGoto(t, "recv_acq")
               /\ UNCHANGED uret
  /\ UNCHANGED <<sock_used, sock_port, sock_queue, sock_qlen, netlock, usock, upkt,
                 ipc, iport, ikind, sock_arrived, sock_enq, lastrecv, deqEarly, netbufs, netpkts>>
  /\ UNCHANGED nonNet

\* Lines 154-164, under netlock: look the socket up; a port not bound fails.
recv_find(t) ==
  /\ upc[t] = "recv_find"
  /\ netlock = t
  /\ IF FindSock(uport[t]) = -1
     THEN /\ netlock' = 0
          /\ uret' = [uret EXCEPT ![t] = -1]
          /\ UGoto(t, "recv_ret")
          /\ UNCHANGED usock
     ELSE /\ usock' = [usock EXCEPT ![t] = FindSock(uport[t])]
          /\ UGoto(t, "recv_loop")
          /\ UNCHANGED <<netlock, uret>>
  /\ UNCHANGED <<sock_used, sock_port, sock_queue, sock_qlen, uport, upkt,
                 ipc, iport, ikind, sock_arrived, sock_enq, lastrecv, deqEarly, netbufs, netpkts>>
  /\ UNCHANGED nonNet

\* Mutant: recv takes a packet without testing the queue.
recv_must_sleep_bug(i) == FALSE

\* Line 167: while(sock->queue == 0).
recv_must_sleep(i) == sock_queue[i] = <<>>

\* The opening burst of a socket: the first Burst frames that come for it, as long
\* as no packet has left its queue and no frame was dropped for lack of memory.
Burst == QUEUE_MAX + 4

\* A packet leaves the queue, or a frame finds no memory: an opening burst still
\* under way is broken, and its frames are no longer counted.
BreakBurst(i) ==
  IF sock_arrived[i] < Burst
  THEN /\ deqEarly' = [deqEarly EXCEPT ![i] = TRUE]
       /\ sock_arrived' = [sock_arrived EXCEPT ![i] = 0]
  ELSE UNCHANGED <<deqEarly, sock_arrived>>

\* Lines 167-176, under netlock: with the queue empty sleep(sock, &netlock) gives
\* netlock up and suspends the thread; else the head packet is unlinked.
recv_loop(t) ==
  /\ upc[t] = "recv_loop"
  /\ netlock = t
  /\ LET i == usock[t] IN
     IF recv_must_sleep(i)
     THEN /\ UGoto(t, "recv_sleep")
          /\ UNCHANGED <<sock_queue, sock_qlen, upkt, lastrecv, deqEarly, sock_arrived>>
     ELSE /\ upkt' = [upkt EXCEPT ![t] = IF sock_queue[i] = <<>> THEN 0 ELSE Head(sock_queue[i])]
          /\ sock_queue' = [sock_queue EXCEPT ![i] = IF @ = <<>> THEN @ ELSE Tail(@)]
          /\ sock_qlen' = [sock_qlen EXCEPT ![i] = @ - 1]
          /\ lastrecv' = [lastrecv EXCEPT ![i] = IF sock_queue[i] = <<>> THEN 0 ELSE Head(sock_queue[i])]
          /\ BreakBurst(i)
          /\ UGoto(t, "recv_copy")
  /\ netlock' = 0
  /\ UNCHANGED <<sock_used, sock_port, uport, usock, uret, ipc, iport, ikind, sock_enq,
                 netbufs, netpkts>>
  /\ UNCHANGED nonNet

\* Lines 178-199: copy the payload out, free the frame and the queue entry; a failed
\* copyout returns -1, a good one the number of bytes copied.
recv_copy(t) ==
  /\ upc[t] = "recv_copy"
  /\ \E copyout_ok \in BOOLEAN :
       uret' = [uret EXCEPT ![t] = IF copyout_ok THEN RxPayloadLen ELSE -1]
  /\ netbufs' = netbufs - 1
  /\ netpkts' = netpkts - 1
  /\ UGoto(t, "recv_ret")
  /\ UNCHANGED <<sock_used, sock_port, sock_queue, sock_qlen, netlock, uport, usock, upkt,
                 ipc, iport, ikind, sock_arrived, sock_enq, lastrecv, deqEarly>>
  /\ UNCHANGED nonNet

RECURSIVE SumTo(_, _)
SumTo(f, n) == IF n < 0 THEN 0 ELSE f[n] + SumTo(f, n - 1)

\* The packets that have been queued on all sockets.
QueuedTotal == SumTo(sock_enq, SOCK_MAX - 1)

\* net_rx, lines 437-451, hands ip_rx a frame the driver received, while fewer than
\* max packets have been queued.
iprx_entry(max) ==
  /\ ipc = "idle"
  /\ QueuedTotal < max
  /\ \E kind \in RxKinds :
       /\ ikind' = kind
       /\ \E dport \in (IF kind = "udp" THEN RxPorts ELSE {0}) : iport' = dport
  /\ netbufs' = netbufs + 1
  /\ ipc' = "iprx_hdr"
  /\ UNCHANGED <<sock_used, sock_port, sock_queue, sock_qlen, netlock, upc, uport, usock,
                 upkt, uret, sock_arrived, sock_enq, lastrecv, deqEarly, netpkts>>
  /\ UNCHANGED nonNet

iprx_call == iprx_entry(MaxQueued)

\* How many packets are ever queued where progress is checked.
MaxFairQueued == 3

iprx_few == iprx_entry(MaxFairQueued)

\* Lines 314-328: a frame that is not UDP, or too short, is freed.
iprx_hdr ==
  /\ ipc = "iprx_hdr"
  /\ IF ikind # "udp"
     THEN /\ netbufs' = netbufs - 1
          /\ ipc' = "idle"
          /\ iport' = 0
          /\ ikind' = "none"
     ELSE /\ ipc' = "iprx_acq"
          /\ UNCHANGED <<netbufs, iport, ikind>>
  /\ UNCHANGED <<sock_used, sock_port, sock_queue, sock_qlen, netlock, upc, uport, usock,
                 upkt, uret, sock_arrived, sock_enq, lastrecv, deqEarly, netpkts>>
  /\ UNCHANGED nonNet

\* Line 330: acquire(&netlock).
iprx_acquire ==
  /\ ipc = "iprx_acq"
  /\ netlock = 0
  /\ netlock' = Irq
  /\ ipc' = "iprx_locked"
  /\ UNCHANGED <<sock_used, sock_port, sock_queue, sock_qlen, upc, uport, usock,
                 upkt, uret, iport, ikind, sock_arrived, sock_enq, lastrecv, deqEarly, netbufs, netpkts>>
  /\ UNCHANGED nonNet

\* Mutant: ip_rx queues the packet whatever the length of the queue.
iprx_full_bug(i) == FALSE

\* Line 349: sock->queue_len >= QUEUE_MAX.
iprx_full(i) == sock_qlen[i] >= QUEUE_MAX

\* Mutant: ip_rx links the packet at the head of the queue.
iprx_link_bug(q, p) == <<p>> \o q

\* Lines 371-379: the packet becomes the last of the queue.
iprx_link(q, p) == Append(q, p)

\* wakeup(sock), line 384: every thread sleeping on the socket becomes runnable.
wakeup(i) ==
  upc' = [t \in Threads |-> IF upc[t] = "recv_sleep" /\ usock[t] = i THEN "recv_woken" ELSE upc[t]]

\* Lines 334-386, under netlock: no socket for the port, a full queue, or no memory
\* for the queue entry: the frame is freed; else the packet is linked at the tail,
\* queue_len grows by one and the sleepers are woken.
iprx_enqueue ==
  /\ ipc = "iprx_locked"
  /\ netlock = Irq
  /\ LET i == FindSock(iport) IN
     IF i = -1
     THEN /\ netbufs' = netbufs - 1
          /\ UNCHANGED <<sock_queue, sock_qlen, upc, sock_arrived, sock_enq, deqEarly, netpkts>>
     ELSE IF iprx_full(i)
     THEN /\ netbufs' = netbufs - 1
          /\ sock_arrived' = [sock_arrived EXCEPT ![i] = IF ~deqEarly[i] /\ @ < Burst THEN @ + 1 ELSE @]
          /\ UNCHANGED <<sock_queue, sock_qlen, upc, sock_enq, deqEarly, netpkts>>
     ELSE \E kalloc_ok \in BOOLEAN :
            IF kalloc_ok
            THEN /\ sock_queue' = [sock_queue EXCEPT ![i] = iprx_link(@, sock_enq[i] + 1)]
                 /\ sock_qlen' = [sock_qlen EXCEPT ![i] = @ + 1]
                 /\ sock_enq' = [sock_enq EXCEPT ![i] = @ + 1]
                 /\ sock_arrived' = [sock_arrived EXCEPT ![i] = IF ~deqEarly[i] /\ @ < Burst THEN @ + 1 ELSE @]
                 /\ netpkts' = netpkts + 1
                 /\ wakeup(i)
                 /\ UNCHANGED <<netbufs, deqEarly>>
            ELSE /\ netbufs' = netbufs - 1
                 /\ BreakBurst(i)
                 /\ UNCHANGED <<sock_queue, sock_qlen, upc, sock_enq, netpkts>>
  /\ netlock' = 0
  /\ ipc' = "idle"
  /\ iport' = 0
  /\ ikind' = "none"
  /\ UNCHANGED <<sock_used, sock_port, uport, usock, upkt, uret, lastrecv>>
  /\ UNCHANGED nonNet

\* ================================================================== MMAP
\* uint64 arithmetic is modelled in a word of WordBits bits, and the user address
\* space is VaPages pages long; in the kernel the word has 64 bits and MAXVA is
\* 1 << 38. The process is one page long and has NVMA mapping slots.
WordBits == 20
VaPages == 40
NVMA == 2
Word == 2^WordBits
MAXVA == VaPages * PGSIZE
TRAMPOLINE == MAXVA - PGSIZE
TRAPFRAME == TRAMPOLINE - PGSIZE
ProcSz == PGSIZE
NOFILE == 16
PROT_READ == 1
PROT_WRITE == 2
PROT_EXEC == 4
PTE_R == 2
PTE_W == 4
PTE_X == 8
PTE_U == 16
MAP_SHARED == 1
MAP_PRIVATE == 2
\* dirty_pages[16] of sys_munmap.
DIRTY_MAX == 16

U64(x) == (x + Word) % Word
PGROUNDDOWN(a) == (a \div PGSIZE) * PGSIZE
\* PGROUNDUP on a uint64: the sum wraps.
PGROUNDUP64(a) == (U64(a + PGSIZE - 1) \div PGSIZE) * PGSIZE
HasBit(x, b) == (x \div b) % 2 = 1

Slots == 0..(NVMA - 1)
\* The open files of the process: p->ofile[0] is open for reading and writing,
\* p->ofile[1] for reading only, p->ofile[2] for writing only.
Files == {1, 2, 3}
Ofile(fd) == IF fd \in {0, 1, 2} THEN fd + 1 ELSE 0
Readable(f) == f \in {1, 2}
Writable(f) == f \in {1, 3}
\* ip->size of every file: DIRTY_MAX pages and 8 bytes.
FileSize == DIRTY_MAX * PGSIZE + 8
Chunks == 0..DIRTY_MAX

\* A slot of p->vmas; arglen is history: the len argument of the mmap that filled it.
\* The fields of a slot that is not used are never read before sys_mmap writes
\* them all, so a slot that is not used is shown as NoVma whatever it holds.
NoVma == [used |-> 0, addr |-> 0, len |-> 0, prot |-> 0, flags |-> 0, f |-> 0, offset |-> 0,
          arglen |-> 0]
NoCall == [op |-> "none", addr |-> 0, len |-> 0, prot |-> 0, flags |-> 0, fd |-> 0, offset |-> 0,
           ret |-> 0]

\* What the files hold at the start: 2 in the even chunks, 3 in the odd ones; a
\* page the process has stored to holds 1, a zero-filled page 0.
FileInit(c) == 2 + (c % 2)

InitMmap ==
  /\ vmas = [i \in Slots |-> NoVma]
  /\ fref = [f \in Files |-> 1]
  /\ present = << >>
  /\ mheld = 0
  /\ fdata = [f \in Files |-> [c \in Chunks |-> FileInit(c)]]
  /\ mcall = NoCall

\* The arguments of mmap: every len with a readable and writable file, and with
\* one page every kind of bad argument, a private and a read-only mapping.
MmapLens == {0, 8, PGSIZE, 2 * PGSIZE, Word - PGSIZE, Word - 1}
MmapArg(addr, len, prot, flags, fd) ==
  [op |-> "mmap", addr |-> addr, len |-> len, prot |-> prot, flags |-> flags, fd |-> fd,
   offset |-> 0, ret |-> 0]
MmapCalls ==
  {MmapArg(0, len, PROT_READ + PROT_WRITE, MAP_SHARED, 0) : len \in MmapLens}
    \cup {MmapArg(PGSIZE, PGSIZE, PROT_READ + PROT_WRITE, MAP_SHARED, 0)}
    \cup {MmapArg(0, PGSIZE, PROT_READ + PROT_WRITE, MAP_SHARED, fd) : fd \in {-1, 1, 2, 3, NOFILE}}
    \cup {MmapArg(0, PGSIZE, PROT_READ + PROT_WRITE, MAP_PRIVATE, 1),
          MmapArg(0, PGSIZE, PROT_READ, MAP_SHARED, 1)}

\* Lines 529-544: the argument and permission checks fail.
mmap_invalid(c) ==
  \/ c.addr # 0
  \/ c.len = 0
  \/ c.fd < 0 \/ c.fd >= NOFILE \/ Ofile(c.fd) = 0
  \/ (c.flags = MAP_SHARED /\ HasBit(c.prot, PROT_WRITE) /\ ~Writable(Ofile(c.fd)))
  \/ ~Readable(Ofile(c.fd))

\* Lines 563-578: the region [va, va + sz) meets a used VMA or the trapframe.
mmap_conflict(va, sz) ==
  \/ \E i \in Slots :
       /\ vmas[i].used = 1
       /\ ~(U64(va + sz) <= vmas[i].addr \/ va >= U64(vmas[i].addr + vmas[i].len))
  \/ U64(va + sz) > TRAPFRAME

\* The loop of lines 562-581 and the test of line 582: the region found, -1 when
\* the loop ends with va < p->sz + sz, -2 when the loop never ends.
RECURSIVE mmap_scan(_, _, _)
mmap_scan(va, sz, fuel) ==
  IF fuel = 0 THEN -2
  ELSE IF va < U64(ProcSz + sz) THEN -1
  ELSE IF mmap_conflict(va, sz) THEN mmap_scan(U64(va - PGSIZE), sz, fuel - 1)
  ELSE va

\* sys_mmap, lines 509-595, with the arguments of one of Calls.
mmap_entry(Calls) ==
  /\ mcall.op # "hung"
  /\ \E c \in Calls :
       LET free == {i \in Slots : vmas[i].used = 0}
           sz == PGROUNDUP64(c.len)
           va == mmap_scan(MAXVA - PGSIZE, sz, Word \div PGSIZE)
       IN IF mmap_invalid(c) \/ free = {} \/ va = -1
          THEN /\ mcall' = [c EXCEPT !.ret = U64(-1)]
               /\ UNCHANGED <<vmas, fref>>
          ELSE IF va = -2
          THEN /\ mcall' = [c EXCEPT !.op = "hung"]
               /\ UNCHANGED <<vmas, fref>>
          ELSE /\ vmas' = [vmas EXCEPT ![MinOf(free)] =
                            [used |-> 1, addr |-> va, len |-> PGROUNDUP64(c.len), prot |-> c.prot,
                             flags |-> c.flags, f |-> Ofile(c.fd), offset |-> c.offset,
                             arglen |-> c.len]]
               /\ fref' = [fref EXCEPT ![Ofile(c.fd)] = @ + 1]
               /\ mcall' = [c EXCEPT !.ret = va]
  /\ UNCHANGED <<present, mheld, fdata>>
  /\ UNCHANGED nonMmap

mmap_call == mmap_entry(MmapCalls)

\* mmap of a shared, writable mapping of one page more than sys_munmap collects.
mmap_big == mmap_entry({MmapArg(0, (DIRTY_MAX + 1) * PGSIZE, PROT_READ + PROT_WRITE, MAP_SHARED, 0)})

\* The loops of lines 609-616 and 717-724: the first used VMA that holds addr, or -1.
FindVma(addr) ==
  LET S == {i \in Slots : /\ vmas[i].used = 1
                          /\ addr >= vmas[i].addr
                          /\ addr < U64(vmas[i].addr + vmas[i].len)}
  IN IF S = {} THEN -1 ELSE MinOf(S)

\* The file offset of the page at va in the mapping v (lines 649 and 746).
FileOffset(v, va) == U64(v.offset + U64(va - v.addr))

\* The page addresses of the k-th page of the used VMAs, below the trapframe.
VmaPages(i) ==
  {a \in {U64(vmas[i].addr + k * PGSIZE) : k \in 0..(VaPages - 1)} :
     vmas[i].used = 1 /\ a < TRAPFRAME /\ FindVma(a) = i}

\* The mapping in slot i is as mmap made it, or a page-aligned part of it.
Whole(i) ==
  /\ vmas[i].used = 1
  /\ vmas[i].addr % PGSIZE = 0
  /\ vmas[i].len % PGSIZE = 0
  /\ vmas[i].len > 0
  /\ vmas[i].addr + vmas[i].len <= TRAPFRAME

\* The arguments of munmap: an address that is not mapped; the start of such a
\* mapping with lengths of 8 bytes, the mapping and a page more, and, when it has
\* one page or two, its second page and the length of a page; and any other
\* mapping with its own length.
MunmapArg(addr, len) ==
  [op |-> "munmap", addr |-> addr, len |-> len, prot |-> 0, flags |-> 0, fd |-> 0, offset |-> 0,
   ret |-> 0]
MunmapCalls ==
  {MunmapArg(0, PGSIZE)} \cup
  UNION {{MunmapArg(U64(vmas[i].addr + d), len) :
            d \in (IF Whole(i) /\ vmas[i].len <= 2 * PGSIZE THEN {0, PGSIZE} ELSE {0}),
            len \in (IF Whole(i)
                     THEN {8, vmas[i].len, U64(vmas[i].len + PGSIZE)}
                            \cup (IF vmas[i].len <= 2 * PGSIZE THEN {PGSIZE} ELSE {})
                     ELSE {vmas[i].len})} :
         i \in {j \in Slots : vmas[j].used = 1}}

\* Lines 641-657: of the present pages R of the range, in address order, the first
\* DIRTY_MAX are collected for write-back.
munmap_collect(R) == {va \in R : Cardinality({w \in R : w < va}) < DIRTY_MAX}

\* Mutant: a trim from the start leaves vma->offset alone.
trim_offset_bug(offset, len) == offset

\* Line 700: vma->offset += len;
trim_offset(offset, len) == U64(offset + len)

\* sys_munmap, lines 597-707.
munmap_entry(Calls) ==
  /\ mcall.op # "hung"
  /\ \E c \in Calls :
       LET i == FindVma(c.addr)
           v == vmas[i]
           start == PGROUNDDOWN(c.addr)
           end == PGROUNDUP64(U64(c.addr + c.len))
           R == {va \in DOMAIN present : va >= start /\ va < end}
           D == IF v.flags = MAP_SHARED THEN munmap_collect(R) ELSE {}
           W == {va \in D : FileOffset(v, va) < FileSize}
       IN IF i = -1 \/ (c.addr # v.addr /\ U64(c.addr + c.len) # U64(v.addr + v.len))
          THEN /\ mcall' = [c EXCEPT !.ret = -1]
               /\ UNCHANGED <<vmas, fref, present, mheld, fdata>>
          ELSE /\ fdata' = [fdata EXCEPT ![v.f] =
                             [k \in Chunks |->
                                IF \E va \in W : FileOffset(v, va) \div PGSIZE = k
                                THEN present[CHOOSE va \in W : FileOffset(v, va) \div PGSIZE = k].val
                                ELSE @[k]]]
               /\ present' = [va \in DOMAIN present \ R |-> present[va]]
               /\ mheld' = mheld - Cardinality(R)
               /\ IF c.addr = v.addr /\ c.len = v.len
                  THEN /\ vmas' = [vmas EXCEPT ![i] = NoVma]
                       /\ fref' = [fref EXCEPT ![v.f] = @ - 1]
                  ELSE IF c.addr = v.addr
                  THEN /\ vmas' = [vmas EXCEPT ![i].addr = U64(@ + c.len),
                                               ![i].len = U64(@ - c.len),
                                               ![i].offset = trim_offset(@, c.len)]
                       /\ UNCHANGED fref
                  ELSE /\ vmas' = [vmas EXCEPT ![i].len = U64(@ - c.len)]
                       /\ UNCHANGED fref
               /\ mcall' = [c EXCEPT !.ret = 0]
  /\ UNCHANGED nonMmap

munmap_call == munmap_entry(MunmapCalls)

\* munmap of a whole mapping.
munmap_whole ==
  munmap_entry({MunmapArg(vmas[i].addr, vmas[i].len) : i \in {j \in Slots : vmas[j].used = 1}})

\* The page at address b is present and, when it is writable, has been written.
Touched(b) ==
  /\ PGROUNDDOWN(b) \in DOMAIN present
  /\ HasBit(present[PGROUNDDOWN(b)].perm, PTE_W) => present[PGROUNDDOWN(b)].val = 1

\* The process touches the pages of a mapping in address order: the first page of
\* every mapping that is not present, once the pages before it have been written.
FaultVAs ==
  {a \in UNION {VmaPages(i) : i \in Slots} :
     /\ PGROUNDDOWN(a) \notin DOMAIN present
     /\ \A b \in VmaPages(FindVma(a)) : b < a => Touched(b)}

\* Lines 757-761: perm = PTE_U, with PTE_R, PTE_W and PTE_X for the bits of prot.
FaultPerm(prot) ==
  PTE_U + (IF HasBit(prot, PROT_READ) THEN PTE_R ELSE 0)
        + (IF HasBit(prot, PROT_WRITE) THEN PTE_W ELSE 0)
        + (IF HasBit(prot, PROT_EXEC) THEN PTE_X ELSE 0)

\* What readi leaves in the zeroed page: the chunk of the file at the offset, and
\* nothing beyond the end of the file.
FaultData(f, file_offset) ==
  IF file_offset < FileSize THEN fdata[f][file_offset \div PGSIZE] ELSE 0

\* Mutant: the page is not freed when readi or mappages fails.
fault_kfree_bug(n) == n

\* Lines 751 and 765: kfree(mem);
fault_kfree(n) == n - 1

\* handle_mmap_fault, lines 710-770, for a load or store at fault_va; out says
\* whether kalloc, readi and mappages succeed.
fault_entry(VAs, Outcomes) ==
  /\ mcall.op # "hung"
  /\ \E fault_va \in VAs, out \in Outcomes :
       LET i == FindVma(fault_va)
           v == vmas[i]
           page_start == PGROUNDDOWN(fault_va)
           file_offset == FileOffset(v, page_start)
           call == [NoCall EXCEPT !.op = "fault", !.addr = fault_va]
       IN IF i = -1 \/ page_start \in DOMAIN present \/ out = "nomem"
          THEN /\ mcall' = [call EXCEPT !.ret = -1]
               /\ UNCHANGED <<present, mheld>>
          ELSE IF out \in {"readfail", "mapfail"}
          THEN /\ mcall' = [call EXCEPT !.ret = -1]
               /\ mheld' = fault_kfree(mheld + 1)
               /\ UNCHANGED present
          ELSE /\ present' = [va \in DOMAIN present \cup {page_start} |->
                                IF va = page_start
                                THEN [val |-> FaultData(v.f, file_offset),
                                      perm |-> FaultPerm(v.prot)]
                                ELSE present[va]]
               /\ mheld' = mheld + 1
               /\ mcall' = call
  /\ UNCHANGED <<vmas, fref, fdata>>
  /\ UNCHANGED nonMmap

\* A fault on a page of a mapping that is not present, with memory to be had.
mmap_fault == fault_entry(FaultVAs, {"ok"})

\* The addresses of mmap_any and the faults of fault_any: mappings of one or two
\* pages, shared or private, with every kind of prot and two offsets; faults at the
\* start of a mapping, inside its pages, a page before it and at its end, and at
\* an address that is never mapped.
FaultMmaps ==
  {[MmapArg(0, 2 * PGSIZE, PROT_READ + PROT_WRITE, MAP_SHARED, 0) EXCEPT !.offset = PGSIZE],
   MmapArg(0, PGSIZE, PROT_READ, MAP_PRIVATE, 1),
   MmapArg(0, PGSIZE, PROT_READ + PROT_EXEC, MAP_PRIVATE, 1),
   MmapArg(0, PGSIZE, PROT_WRITE, MAP_PRIVATE, 0)}

mmap_any == mmap_entry(FaultMmaps)

AnyFaultVAs ==
  {PGSIZE} \cup
  UNION {{U64(vmas[i].addr + d) : d \in {-PGSIZE, 0, 8, PGSIZE + 8, vmas[i].len}} :
         i \in {j \in Slots : vmas[j].used = 1}}

fault_any == fault_entry(AnyFaultVAs, {"ok", "nomem", "readfail", "mapfail"})

\* The process stores to the first page of a mapping it has not yet written, when
\* the page is present and writable.
user_store ==
  /\ mcall.op # "hung"
  /\ \E a \in UNION {VmaPages(i) : i \in Slots} :
       LET pg == PGROUNDDOWN(a) IN
       /\ pg \in DOMAIN present
       /\ HasBit(present[pg].perm, PTE_W)
       /\ present[pg].val # 1
       /\ \A b \in VmaPages(FindVma(a)) : b < a => Touched(b)
       /\ present' = [present EXCEPT ![pg].val = 1]
       /\ mcall' = [NoCall EXCEPT !.op = "store", !.addr = a]
  /\ UNCHANGED <<vmas, fref, mheld, fdata>>
  /\ UNCHANGED nonMmap

\* ================================================================== FSCALL
\* kernel/sysfile.c: create, sys_link and sys_unlink over the inodes and the root
\* directory.  Paths are names in the root directory, "." and a path whose parent
\* directory does not exist.  A call runs in steps, one for every stretch of code
\* between two inode-lock operations that lets another thread in.
T_DIR == 1
T_FILE == 2
ROOTINO == 1
ROOTDEV == 1
NINODES == 4
Inodes == 1..NINODES
Names == {"a", "b", "d"}
NoParent == "x/b"
Paths == Names \cup {NoParent}
LinkNew == {"a", "b", NoParent}
UnlinkPaths == Names \cup {".", NoParent}

\* A thread between two steps of sys_link: its ip and its path new.
NoLink == [ip |-> 0, new |-> ""]

\* why: the place a failed link returned from; nl0: ip->nlink before a successful
\* unlink took one off.
NoFsCall == [op |-> "none", ret |-> 0, why |-> "", nl0 |-> 0, path |-> ""]

FsRet(op, ret) == [NoFsCall EXCEPT !.op = op, !.ret = ret]

InitFs ==
  /\ itype = [i \in Inodes |-> IF i = ROOTINO THEN T_DIR ELSE 0]
  /\ nlink = [i \in Inodes |-> IF i = ROOTINO THEN 1 ELSE 0]
  /\ dirent = [n \in Names |-> 0]
  /\ subdir = [i \in Inodes |-> 0]
  /\ fpc = [t \in Threads |-> "idle"]
  /\ flink = [t \in Threads |-> NoLink]
  /\ fcall = NoFsCall

\* The paths into the directory named "d": its entry "x", "." and "..".
SubPaths == {"d/x", "d/.", "d/.."}

\* nameiparent(path, name): the directory that holds the last element, 0 if there
\* is none or the element before the last is no directory.
nameiparent(p) ==
  IF p \in Names \cup {".", ".."} THEN ROOTINO
  ELSE IF p \in SubPaths /\ dirent["d"] # 0 /\ itype[dirent["d"]] = T_DIR THEN dirent["d"]
  ELSE 0

\* The name nameiparent copies out: the last element of the path.
lastname(p) ==
  IF p \in Names \cup {".", ".."} THEN p
  ELSE IF p = "d/." THEN "."
  ELSE IF p = "d/.." THEN ".."
  ELSE IF p = "d/x" THEN "x"
  ELSE "b"

\* dirlookup(dp, name) for a name other than "." and "..": the inode number of the
\* entry, 0 if there is none.
dirlookup(dp, name) ==
  IF dp = ROOTINO /\ name \in Names THEN dirent[name]
  ELSE IF dp # ROOTINO /\ dp # 0 /\ name = "x" THEN subdir[dp]
  ELSE 0

\* writei of a directory entry: the entry name of dp gets inode number inum.
dirwrite(dp, name, inum) ==
  IF dp = ROOTINO
  THEN dirent' = [dirent EXCEPT ![name] = inum] /\ UNCHANGED subdir
  ELSE subdir' = [subdir EXCEPT ![dp] = inum] /\ UNCHANGED dirent

\* namei(path): the inode the path names, 0 if there is none.
namei(p) ==
  IF p \in Names THEN dirent[p]
  ELSE IF p = "d/x" THEN dirlookup(nameiparent(p), "x")
  ELSE 0

\* Every inode of the file system is on the one disk.
InodeDev(i) == ROOTDEV

\* The threads that hold a reference to inode i from namei.
Holders(i) == {t \in Threads : fpc[t] # "idle" /\ flink[t].ip = i}

\* iput(ip) by thread t: the last reference to an inode without links frees it.
iput(ty, nl, i, t) ==
  IF nl[i] = 0 /\ Holders(i) \ {t} = {} THEN [ty EXCEPT ![i] = 0] ELSE ty

\* ialloc: the first free inode, 0 if there is none.
ialloc == IF \E i \in Inodes : itype[i] = 0
          THEN MinOf({i \in Inodes : itype[i] = 0}) ELSE 0

\* isdirempty(ip), lines 174-187: no entry after "." and ".." has an inode number.
isdirempty(i) == IF i = ROOTINO THEN \A n \in Names : dirent[n] = 0 ELSE subdir[i] = 0

\* create(path, type, 0, 0), as open(O_CREATE) and mkdir call it; nospace says
\* that the directory cannot grow, so that dirlink fails.
create_entry(t, Ps) ==
  /\ fpc[t] = "idle"
  /\ \E p \in Ps, type \in {T_FILE, T_DIR}, nospace \in BOOLEAN :
       LET dp == nameiparent(p)
           ip == dirlookup(dp, lastname(p))
       IN
       IF dp = 0
       THEN /\ fcall' = FsRet("create", -1)
            /\ UNCHANGED <<itype, nlink, dirent, subdir>>
       ELSE IF ip # 0
       THEN /\ fcall' = FsRet("create", IF type = T_FILE /\ itype[ip] = T_FILE
                                        THEN 0 ELSE -1)
            /\ UNCHANGED <<itype, nlink, dirent, subdir>>
       ELSE IF ialloc = 0 \/ nospace
       THEN \* the fail label sets nlink of the new inode back to 0 and iput frees it
            /\ fcall' = FsRet("create", -1)
            /\ UNCHANGED <<itype, nlink, dirent, subdir>>
       ELSE /\ itype' = [itype EXCEPT ![ialloc] = type]
            /\ nlink' = [nlink EXCEPT ![ialloc] = 1,
                                      ![dp] = IF type = T_DIR THEN @ + 1 ELSE @]
            /\ dirwrite(dp, lastname(p), ialloc)
            /\ fcall' = FsRet("create", 0)
  /\ UNCHANGED <<fpc, flink>>
  /\ UNCHANGED nonFs

create(t) == create_entry(t, Paths)

\* sys_link up to namei(old).
link_call(t) ==
  /\ fpc[t] = "idle"
  /\ \E old \in Paths, new \in LinkNew :
       IF namei(old) = 0
       THEN /\ fcall' = [FsRet("link", -1) EXCEPT !.why = "old"]
            /\ UNCHANGED <<fpc, flink>>
       ELSE /\ flink' = [flink EXCEPT ![t] = [ip |-> namei(old), new |-> new]]
            /\ fpc' = [fpc EXCEPT ![t] = "link_lock"]
            /\ UNCHANGED fcall
  /\ UNCHANGED <<itype, nlink, dirent, subdir>>
  /\ UNCHANGED nonFs

\* sys_link from ilock(ip) to iunlock(ip): directories are refused, nlink goes up.
link_lock(t) ==
  /\ fpc[t] = "link_lock"
  /\ LET ip == flink[t].ip IN
     IF itype[ip] = T_DIR
     THEN /\ itype' = iput(itype, nlink, ip, t)
          /\ fpc' = [fpc EXCEPT ![t] = "idle"]
          /\ flink' = [flink EXCEPT ![t] = NoLink]
          /\ fcall' = [FsRet("link", -1) EXCEPT !.why = "dir"]
          /\ UNCHANGED nlink
     ELSE /\ nlink' = [nlink EXCEPT ![ip] = @ + 1]
          /\ fpc' = [fpc EXCEPT ![t] = "link_dir"]
          /\ UNCHANGED <<itype, flink, fcall>>
  /\ UNCHANGED <<dirent, subdir>>
  /\ UNCHANGED nonFs

\* The bad label of sys_link takes the increment back.
link_undo_bug(nl, ip) == nl

link_undo(nl, ip) == [nl EXCEPT ![ip] = @ - 1]

\* sys_link from nameiparent(new) to the end.
link_dir(t) ==
  /\ fpc[t] = "link_dir"
  /\ \E nospace \in BOOLEAN :
       LET ip == flink[t].ip
           new == flink[t].new
           dp == nameiparent(new)
       IN
       IF dp = 0 \/ InodeDev(dp) # InodeDev(ip) \/ dirent[new] # 0 \/ nospace
       THEN /\ nlink' = link_undo(nlink, ip)
            /\ itype' = iput(itype, nlink', ip, t)
            /\ fcall' = [FsRet("link", -1) EXCEPT !.why = "bad"]
            /\ UNCHANGED dirent
       ELSE /\ dirent' = [dirent EXCEPT ![new] = ip]
            /\ fcall' = FsRet("link", 0)
            /\ UNCHANGED <<itype, nlink>>
  /\ fpc' = [fpc EXCEPT ![t] = "idle"]
  /\ flink' = [flink EXCEPT ![t] = NoLink]
  /\ UNCHANGED subdir
  /\ UNCHANGED nonFs

\* The decrement of ip->nlink in sys_unlink.
unlink_dec_bug(nl, ip) == nl

unlink_dec(nl, ip) == [nl EXCEPT ![ip] = @ - 1]

\* Mutant: the parent keeps the link of the ".." of a directory that is gone.
unlink_dp_dec_bug(nl, dp) == nl

\* Lines 226-229: if(ip->type == T_DIR){ dp->nlink--; iupdate(dp); }
unlink_dp_dec(nl, dp) == [nl EXCEPT ![dp] = @ - 1]

\* sys_unlink: dp stays locked until the entry is gone and ip is locked before
\* that, so nothing of another thread falls in between.
unlink_entry(t, Ps) ==
  /\ fpc[t] = "idle"
  /\ \E p \in Ps :
       LET dp == nameiparent(p)
           name == lastname(p)
           ip == dirlookup(dp, name)
           ret(r) == [FsRet("unlink", r) EXCEPT !.path = p]
       IN
       IF dp = 0 \/ name \in {".", ".."} \/ ip = 0
       THEN /\ fcall' = ret(-1)
            /\ UNCHANGED <<itype, nlink, dirent, subdir>>
       ELSE IF nlink[ip] < 1
       THEN /\ fcall' = FsRet("panic", 0)
            /\ UNCHANGED <<itype, nlink, dirent, subdir>>
       ELSE IF itype[ip] = T_DIR /\ ~isdirempty(ip)
       THEN /\ fcall' = ret(-1)
            /\ UNCHANGED <<itype, nlink, dirent, subdir>>
       ELSE /\ dirwrite(dp, name, 0)
            /\ nlink' = unlink_dec(IF itype[ip] = T_DIR THEN unlink_dp_dec(nlink, dp)
                                                         ELSE nlink, ip)
            /\ itype' = iput(itype, nlink', ip, t)
            /\ fcall' = [ret(0) EXCEPT !.nl0 = nlink[ip]]
  /\ UNCHANGED <<fpc, flink>>
  /\ UNCHANGED nonFs

sys_unlink(t) == unlink_entry(t, UnlinkPaths)

\* One process that makes files and directories in the root and in "d", links
\* files in the root and unlinks by every kind of path.
SeqCreatePaths == {"a", "d", "d/x"}
SeqUnlinkPaths == Names \cup SubPaths \cup {".", "..", NoParent}
FsProc == CHOOSE t \in Threads : \A u \in Threads : t <= u

\* ================================================================== RX
\* kernel/e1000.c: the receive ring and e1000_recv, with the path of a received
\* frame through net_rx, ip_rx and arp_rx of kernel/net.c and the locks the
\* interrupt thread takes on the way (rheld, in the order it took them).  The PLIC
\* hands an interrupt of the device to one CPU at a time, so one thread runs
\* e1000_recv.  The socket table and the transmit ring are those of SpecNet and
\* SpecNic; here the branch ip_rx and e1000_transmit take is an input.  The ring
\* has RX_RING_SIZE slots (16 in the kernel), the device receives MaxRx frames,
\* the socket queue takes MaxRxQueued packets, and the allocator has three pages
\* more than the ring.
RX_RING_SIZE == 4
E1000_RXD_STAT_DD == 1
MaxRx == 6
MaxRxQueued == 1
NRXPAGES == RX_RING_SIZE + 3

RxSlots == 0..(RX_RING_SIZE - 1)
RxPages == 1..NRXPAGES
FrameKinds == {"ip", "arp", "other"}
IpPaths == {"nosock", "full", "queue"}
TxPaths == {"full", "stash", "nostash"}

\* e1000_init, lines 55-65: every slot has a page of its own, RDH = 0, RDT = size - 1.
InitRx ==
  /\ rx_ring = [i \in RxSlots |-> [addr |-> i + 1, status |-> 0]]
  /\ rx_bufs = [i \in RxSlots |-> i + 1]
  /\ regRDH = 0
  /\ regRDT = RX_RING_SIZE - 1
  /\ rpc = "idle"
  /\ rret = "none"
  /\ rslot = 0
  /\ rbuf = 0
  /\ rarg = 0
  /\ rheld = <<>>
  /\ rfree = RxPages \ {i + 1 : i \in RxSlots}
  /\ rqueue = <<>>
  /\ rxdata = [p \in RxPages |-> 0]
  /\ rxseq = 0
  /\ ndelivered = 0
  /\ rseen_arp = 0
  /\ rpanicked = FALSE

RAt(l) == ~rpanicked /\ rpc = l

\* acquire(lk) and release(lk) by the interrupt thread.
r_acquire(lk) == rheld' = Append(rheld, lk)

r_release(lk) == rheld' = SelectSeq(rheld, LAMBDA x : x # lk)

\* Call kalloc() or kfree(pa) and go on at label ret afterwards.
r_call(fn, pa, ret) ==
  /\ rpc' = fn
  /\ rarg' = pa
  /\ rret' = ret

\* The device receives a frame: it writes it to the page of the descriptor at RDH,
\* sets DD and moves RDH on; it stops when RDH reaches RDT.
nic_rx ==
  /\ ~rpanicked
  /\ rxseq < MaxRx
  /\ regRDH # regRDT
  /\ rxseq' = rxseq + 1
  /\ rxdata' = [rxdata EXCEPT ![rx_ring[regRDH].addr] = rxseq + 1]
  /\ rx_ring' = [rx_ring EXCEPT ![regRDH].status = E1000_RXD_STAT_DD]
  /\ regRDH' = (regRDH + 1) % RX_RING_SIZE
  /\ UNCHANGED <<rx_bufs, regRDT, rpc, rret, rslot, rbuf, rarg, rheld, rfree, rqueue,
                 ndelivered, rseen_arp, rpanicked>>
  /\ UNCHANGED nonRx

\* e1000_intr calls e1000_recv: acquire(&e1000_lock), lines 149 and 187.
e1000_recv_acquire ==
  /\ RAt("idle") \/ RAt("recv_reacq")
  /\ r_acquire("e1000_lock")
  /\ rpc' = "recv_loop"
  /\ rbuf' = 0
  /\ UNCHANGED <<rx_ring, rx_bufs, regRDH, regRDT, rret, rslot, rarg, rfree, rqueue,
                 rxdata, rxseq, ndelivered, rseen_arp, rpanicked>>
  /\ UNCHANGED nonRx

\* Lines 155-168: rdt = (RDT + 1) % size; without DD leave the loop and release;
\* else buf = rx_bufs[rdt] and kalloc() is called.
e1000_recv_loop ==
  /\ RAt("recv_loop")
  /\ LET rdt == (regRDT + 1) % RX_RING_SIZE IN
     IF rx_ring[rdt].status % 2 = 0
     THEN /\ r_release("e1000_lock")
          /\ rpc' = "idle"
          /\ UNCHANGED <<rslot, rbuf, rarg, rret>>
     ELSE /\ rslot' = rdt
          /\ rbuf' = rx_bufs[rdt]
          /\ r_call("kalloc", 0, "recv_replace")
          /\ UNCHANGED rheld
  /\ UNCHANGED <<rx_ring, rx_bufs, regRDH, regRDT, rfree, rqueue, rxdata, rxseq,
                 ndelivered, rseen_arp, rpanicked>>
  /\ UNCHANGED nonRx

\* kalloc and kfree take kmem.lock (kalloc.c lines 102 and 116).
rx_kmem_acquire ==
  /\ RAt("kalloc") \/ RAt("kfree")
  /\ r_acquire("kmem.lock")
  /\ rpc' = IF rpc = "kalloc" THEN "kalloc_locked" ELSE "kfree_locked"
  /\ UNCHANGED <<rx_ring, rx_bufs, regRDH, regRDT, rret, rslot, rbuf, rarg, rfree, rqueue,
                 rxdata, rxseq, ndelivered, rseen_arp, rpanicked>>
  /\ UNCHANGED nonRx

\* kalloc under kmem.lock: the first free page, 0 if there is none.
rx_kalloc ==
  /\ RAt("kalloc_locked")
  /\ rarg' = IF rfree = {} THEN 0 ELSE MinOf(rfree)
  /\ rfree' = rfree \ {rarg'}
  /\ r_release("kmem.lock")
  /\ rpc' = rret
  /\ rret' = "none"
  /\ UNCHANGED <<rx_ring, rx_bufs, regRDH, regRDT, rslot, rbuf, rqueue, rxdata, rxseq,
                 ndelivered, rseen_arp, rpanicked>>
  /\ UNCHANGED nonRx

\* kfree under kmem.lock; page 0 stands for a page of the transmit ring.
rx_kfree ==
  /\ RAt("kfree_locked")
  /\ rfree' = IF rarg = 0 THEN rfree ELSE rfree \cup {rarg}
  /\ rxdata' = IF rarg = 0 THEN rxdata ELSE [rxdata EXCEPT ![rarg] = 0]
  /\ rarg' = 0
  /\ r_release("kmem.lock")
  /\ rpc' = rret
  /\ rret' = "none"
  /\ UNCHANGED <<rx_ring, rx_bufs, regRDH, regRDT, rslot, rbuf, rqueue, rxseq,
                 ndelivered, rseen_arp, rpanicked>>
  /\ UNCHANGED nonRx

\* Mutant: the slot keeps the buffer that is handed to net_rx.
rx_replace_bug(buf, new) == buf

\* Line 168: rx_bufs[rdt] = kalloc();
rx_replace(buf, new) == new

\* Lines 169-184: a null page panics; the slot gets the new page, status 0,
\* RDT = rdt; release(&e1000_lock); net_rx(buf, len).
e1000_recv_replace ==
  /\ RAt("recv_replace")
  /\ IF rarg = 0
     THEN /\ rpanicked' = TRUE
          /\ UNCHANGED <<rx_ring, rx_bufs, regRDT, rheld, rpc, rarg, ndelivered>>
     ELSE /\ rx_bufs' = [rx_bufs EXCEPT ![rslot] = rx_replace(rbuf, rarg)]
          /\ rx_ring' = [rx_ring EXCEPT ![rslot] = [addr |-> rx_bufs'[rslot], status |-> 0]]
          /\ regRDT' = rslot
          /\ r_release("e1000_lock")
          /\ rpc' = "net_rx"
          /\ rarg' = 0
          /\ ndelivered' = ndelivered + 1
          /\ UNCHANGED rpanicked
  /\ UNCHANGED <<regRDH, rret, rslot, rbuf, rfree, rqueue, rxdata, rxseq, rseen_arp>>
  /\ UNCHANGED nonRx

\* net.c lines 438-451, net_rx: an ARP frame goes to arp_rx, an IP frame to ip_rx,
\* anything else is freed.  arp_rx (lines 397-411) frees every ARP frame after the
\* first at once and else calls kalloc() for the reply.  ip_rx passes a UDP frame
\* on to its locked part and frees any other.
net_rx ==
  /\ RAt("net_rx")
  /\ \E kind \in FrameKinds, udp \in BOOLEAN :
       IF kind = "arp"
       THEN IF rseen_arp # 0
            THEN /\ r_call("kfree", rbuf, "recv_reacq")
                 /\ UNCHANGED rseen_arp
            ELSE /\ rseen_arp' = 1
                 /\ r_call("kalloc", 0, "arp_tx")
       ELSE IF kind = "ip" /\ udp
       THEN /\ rpc' = "ip_rx"
            /\ UNCHANGED <<rarg, rret, rseen_arp>>
       ELSE /\ r_call("kfree", rbuf, "recv_reacq")
            /\ UNCHANGED rseen_arp
  /\ UNCHANGED <<rx_ring, rx_bufs, regRDH, regRDT, rslot, rbuf, rheld, rfree, rqueue,
                 rxdata, rxseq, ndelivered, rpanicked>>
  /\ UNCHANGED nonRx

\* net.c lines 330-357, ip_rx: acquire(&netlock); without a socket for the port or
\* with a full queue release and kfree(buf); else kalloc() for the queue entry.
ip_rx ==
  /\ RAt("ip_rx")
  /\ \E path \in IpPaths :
       /\ path = "queue" => Len(rqueue) < MaxRxQueued
       /\ IF path = "queue"
          THEN /\ r_acquire("netlock")
               /\ r_call("kalloc", 0, "iprx_pkt")
          ELSE /\ UNCHANGED rheld
               /\ r_call("kfree", rbuf, "recv_reacq")
  /\ UNCHANGED <<rx_ring, rx_bufs, regRDH, regRDT, rslot, rbuf, rfree, rqueue,
                 rxdata, rxseq, ndelivered, rseen_arp, rpanicked>>
  /\ UNCHANGED nonRx

\* net.c lines 358-384: without memory release and kfree(buf); else the entry is
\* linked at the tail of the queue and wakeup(sock) is called.
iprx_pkt ==
  /\ RAt("iprx_pkt")
  /\ IF rarg = 0
     THEN /\ r_release("netlock")
          /\ r_call("kfree", rbuf, "recv_reacq")
          /\ UNCHANGED rqueue
     ELSE /\ rqueue' = Append(rqueue, <<rbuf, rarg>>)
          /\ rpc' = "wakeup"
          /\ rarg' = 0
          /\ UNCHANGED <<rheld, rret>>
  /\ UNCHANGED <<rx_ring, rx_bufs, regRDH, regRDT, rslot, rbuf, rfree, rxdata, rxseq,
                 ndelivered, rseen_arp, rpanicked>>
  /\ UNCHANGED nonRx

\* wakeup(sock), net.c line 384: it takes the lock of a process to look at it.
wakeup_acquire ==
  /\ RAt("wakeup")
  /\ r_acquire("p->lock")
  /\ rpc' = "wakeup_locked"
  /\ UNCHANGED <<rx_ring, rx_bufs, regRDH, regRDT, rret, rslot, rbuf, rarg, rfree, rqueue,
                 rxdata, rxseq, ndelivered, rseen_arp, rpanicked>>
  /\ UNCHANGED nonRx

\* wakeup lets go of the process lock; ip_rx releases netlock, line 386, and returns.
wakeup_release ==
  /\ RAt("wakeup_locked")
  /\ rheld' = SelectSeq(rheld, LAMBDA x : x # "p->lock" /\ x # "netlock")
  /\ rpc' = "recv_reacq"
  /\ UNCHANGED <<rx_ring, rx_bufs, regRDH, regRDT, rret, rslot, rbuf, rarg, rfree, rqueue,
                 rxdata, rxseq, ndelivered, rseen_arp, rpanicked>>
  /\ UNCHANGED nonRx

\* net.c lines 411-432 and e1000.c lines 105-121: a null reply page panics; else
\* e1000_transmit takes e1000_lock; a full ring releases it; a slot with a stashed
\* buffer calls kfree for it.
arp_tx ==
  /\ RAt("arp_tx")
  /\ IF rarg = 0
     THEN /\ rpanicked' = TRUE
          /\ UNCHANGED <<rheld, rpc, rarg, rret>>
     ELSE /\ UNCHANGED rpanicked
          /\ \E path \in TxPaths :
               IF path = "full"
               THEN /\ r_call("kfree", rbuf, "recv_reacq")
                    /\ UNCHANGED rheld
               ELSE IF path = "stash"
               THEN /\ r_acquire("e1000_lock")
                    /\ r_call("kfree", 0, "arp_sent")
               ELSE /\ r_acquire("e1000_lock")
                    /\ rpc' = "arp_sent"
                    /\ rarg' = 0
                    /\ UNCHANGED rret
  /\ UNCHANGED <<rx_ring, rx_bufs, regRDH, regRDT, rslot, rbuf, rfree, rqueue,
                 rxdata, rxseq, ndelivered, rseen_arp>>
  /\ UNCHANGED nonRx

\* e1000.c lines 124-136 and net.c line 434: the reply is in the transmit ring,
\* release(&e1000_lock); kfree(inbuf).
arp_sent ==
  /\ RAt("arp_sent")
  /\ r_release("e1000_lock")
  /\ r_call("kfree", rbuf, "recv_reacq")
  /\ UNCHANGED <<rx_ring, rx_bufs, regRDH, regRDT, rslot, rbuf, rfree, rqueue,
                 rxdata, rxseq, ndelivered, rseen_arp, rpanicked>>
  /\ UNCHANGED nonRx

\* Mutant: a failed copyout frees the queue entry only.
recv_frees_bug(pkt, copied) == IF copied THEN {pkt[1], pkt[2]} ELSE {pkt[2]}

\* net.c lines 187-197: kfree(pkt->buf); kfree(pkt); after a failed copyout and
\* after a good one.
recv_frees(pkt, copied) == {pkt[1], pkt[2]}

\* net.c lines 171-197, the end of sys_recv in a process: the first entry of the
\* queue is taken out, the payload is copied out or not, and the frame and the
\* entry are freed.
rx_consume ==
  /\ ~rpanicked
  /\ rqueue # <<>>
  /\ \A k \in 1..Len(rheld) : rheld[k] \notin {"netlock", "kmem.lock"}
  /\ rqueue' = Tail(rqueue)
  /\ \E copied \in BOOLEAN : rfree' = rfree \cup recv_frees(rqueue[1], copied)
  /\ rxdata' = [rxdata EXCEPT ![rqueue[1][1]] = 0]
  /\ UNCHANGED <<rx_ring, rx_bufs, regRDH, regRDT, rpc, rret, rslot, rbuf, rarg, rheld,
                 rxseq, ndelivered, rseen_arp, rpanicked>>
  /\ UNCHANGED nonRx

\* ================================================================== TXN
\* kernel/sysfile.c: the control flow of sys_link, sys_unlink, sys_open, sys_mkdir,
\* sys_mknod, sys_chdir and of the write-back of sys_munmap, with create as the
\* three of them call it.  A flow is the set of the steps of a function:
\* <<position, operation, argument, next position>>.  Two steps from one position
\* are the two sides of a branch of the code; "skip" is a branch that calls
\* nothing.  Every function starts at "start" and its return leads to "ret".
InitTxn ==
  /\ logpc = [call |-> "none", at |-> "ret"]
  /\ outstanding = 0
  /\ nbegin = 0
  /\ nend = 0
  /\ ilocked = {}
  /\ nmods = 0
  /\ lastop = <<"none", "">>

\* The operations that change an inode or a directory, and all that work on inodes.
ModOps == {"nlink++", "nlink--", "nlink=0", "iupdate", "dirlink", "writei", "itrunc",
           "ialloc", "iput", "iunlockput"}
InodeOps == ModOps \cup {"ilock", "iunlock"}

\* History counts stop at MaxCount.
MaxCount == 6

\* sys_link, lines 124-171.
LinkFlow ==
  {<<"start", "return", "-1", "ret">>,            \* argstr fails, line 131
   <<"start", "begin_op", "", "namei">>,
   <<"namei", "end_op", "", "retm">>,             \* namei(old) == 0
   <<"namei", "ilock", "ip", "type">>,
   <<"type", "iunlockput", "ip", "endm">>,        \* ip->type == T_DIR
   <<"type", "nlink++", "ip", "upd">>,
   <<"upd", "iupdate", "ip", "unl">>,
   <<"unl", "iunlock", "ip", "parent">>,
   <<"parent", "skip", "", "bad">>,               \* nameiparent(new) == 0
   <<"parent", "ilock", "dp", "dirlink">>,
   <<"dirlink", "iunlockput", "dp", "bad">>,      \* dp->dev != ip->dev
   <<"dirlink", "dirlink", "dp", "linked">>,
   <<"linked", "iunlockput", "dp", "bad">>,       \* dirlink < 0
   <<"linked", "iunlockput", "dp", "iput">>,
   <<"iput", "iput", "ip", "end0">>,
   <<"end0", "end_op", "", "ret0">>,
   <<"ret0", "return", "0", "ret">>,
   <<"bad", "ilock", "ip", "bad_dec">>,
   <<"bad_dec", "nlink--", "ip", "bad_upd">>,
   <<"bad_upd", "iupdate", "ip", "bad_put">>,
   <<"bad_put", "iunlockput", "ip", "endm">>,
   <<"endm", "end_op", "", "retm">>,
   <<"retm", "return", "-1", "ret">>}

\* sys_unlink, lines 189-244.
UnlinkFlow ==
  {<<"start", "return", "-1", "ret">>,            \* argstr fails, line 198
   <<"start", "begin_op", "", "parent">>,
   <<"parent", "end_op", "", "retm">>,            \* nameiparent(path) == 0
   <<"parent", "ilock", "dp", "name">>,
   <<"name", "skip", "", "bad">>,                 \* "." or "..", or no such entry
   <<"name", "ilock", "ip", "check">>,
   <<"check", "iunlockput", "ip", "bad">>,        \* a directory that is not empty
   <<"check", "writei", "dp", "dpdec">>,
   <<"dpdec", "nlink--", "dp", "dpupd">>,         \* ip->type == T_DIR
   <<"dpupd", "iupdate", "dp", "dpput">>,
   <<"dpdec", "skip", "", "dpput">>,
   <<"dpput", "iunlockput", "dp", "ipdec">>,
   <<"ipdec", "nlink--", "ip", "ipupd">>,
   <<"ipupd", "iupdate", "ip", "ipput">>,
   <<"ipput", "iunlockput", "ip", "end0">>,
   <<"end0", "end_op", "", "ret0">>,
   <<"ret0", "return", "0", "ret">>,
   <<"bad", "iunlockput", "dp", "endm">>,
   <<"endm", "end_op", "", "retm">>,
   <<"retm", "return", "-1", "ret">>}

\* create, lines 246-303, called at position "create"; it returns a locked inode
\* to position okTo or 0 to position failTo.
CreateFlow(okTo, failTo) ==
  {<<"create", "skip", "", failTo>>,              \* nameiparent(path) == 0
   <<"create", "ilock", "dp", "c_look">>,
   <<"c_look", "iunlockput", "dp", "c_exist">>,   \* dirlookup finds the name
   <<"c_exist", "ilock", "ip", "c_kind">>,
   <<"c_kind", "skip", "", okTo>>,                \* a file is opened
   <<"c_kind", "iunlockput", "ip", failTo>>,
   <<"c_look", "ialloc", "", "c_noalloc">>,       \* ialloc returns 0
   <<"c_noalloc", "iunlockput", "dp", failTo>>,
   <<"c_look", "ialloc", "", "c_alloc">>,
   <<"c_alloc", "ilock", "ip", "c_init">>,
   <<"c_init", "iupdate", "ip", "c_dots">>,
   <<"c_dots", "dirlink", "ip", "c_link">>,       \* type == T_DIR: "." and ".."
   <<"c_dots", "dirlink", "ip", "c_fail">>,
   <<"c_dots", "skip", "", "c_link">>,
   <<"c_link", "dirlink", "dp", "c_linked">>,
   <<"c_link", "dirlink", "dp", "c_fail">>,
   <<"c_linked", "nlink++", "dp", "c_dpupd">>,    \* type == T_DIR
   <<"c_dpupd", "iupdate", "dp", "c_put">>,
   <<"c_linked", "skip", "", "c_put">>,
   <<"c_put", "iunlockput", "dp", okTo>>,
   <<"c_fail", "nlink=0", "ip", "c_fail_upd">>,
   <<"c_fail_upd", "iupdate", "ip", "c_fail_ip">>,
   <<"c_fail_ip", "iunlockput", "ip", "c_fail_dp">>,
   <<"c_fail_dp", "iunlockput", "dp", failTo>>}

\* sys_open, lines 305-372.
OpenFlow ==
  {<<"start", "return", "-1", "ret">>,            \* argstr fails, line 316
   <<"start", "begin_op", "", "mode">>,
   <<"mode", "skip", "", "create">>,              \* omode & O_CREATE
   <<"mode", "end_op", "", "retm">>,              \* namei(path) == 0
   <<"mode", "ilock", "ip", "dirchk">>,
   <<"dirchk", "iunlockput", "ip", "endm">>,      \* a directory, not read-only
   <<"dirchk", "skip", "", "dev">>,
   <<"dev", "iunlockput", "ip", "endm">>,         \* a device with a bad major
   <<"dev", "skip", "", "file">>,
   <<"file", "fileclose", "f", "nofile">>,        \* fdalloc fails
   <<"file", "skip", "", "nofile">>,              \* filealloc fails
   <<"nofile", "iunlockput", "ip", "endm">>,
   <<"file", "skip", "", "trunc">>,
   <<"trunc", "itrunc", "ip", "unl">>,            \* O_TRUNC on a file
   <<"trunc", "skip", "", "unl">>,
   <<"unl", "iunlock", "ip", "end0">>,
   <<"end0", "end_op", "", "ret0">>,
   <<"ret0", "return", "fd", "ret">>,
   <<"endm", "end_op", "", "retm">>,
   <<"retm", "return", "-1", "ret">>}
  \cup CreateFlow("dev", "endm")

\* sys_mkdir, lines 374-388.
MkdirFlow ==
  {<<"start", "begin_op", "", "arg">>,
   <<"arg", "skip", "", "endm">>,                 \* argstr fails
   <<"arg", "skip", "", "create">>,
   <<"put", "iunlockput", "ip", "end0">>,
   <<"end0", "end_op", "", "ret0">>,
   <<"ret0", "return", "0", "ret">>,
   <<"endm", "end_op", "", "retm">>,
   <<"retm", "return", "-1", "ret">>}
  \cup CreateFlow("put", "endm")

\* sys_mknod, lines 390-408.
MknodFlow ==
  {<<"start", "begin_op", "", "arg">>,
   <<"arg", "skip", "", "endm">>,                 \* argstr fails
   <<"arg", "skip", "", "create">>,
   <<"put", "iunlockput", "ip", "end0">>,
   <<"end0", "end_op", "", "ret0">>,
   <<"ret0", "return", "0", "ret">>,
   <<"endm", "end_op", "", "retm">>,
   <<"retm", "return", "-1", "ret">>}
  \cup CreateFlow("put", "endm")

\* Mutant: sys_chdir returns for a path that is no directory without end_op.
ChdirFlow_bug ==
  {<<"start", "begin_op", "", "arg">>,
   <<"arg", "end_op", "", "retm">>,
   <<"arg", "ilock", "ip", "type">>,
   <<"type", "iunlockput", "ip", "retm">>,
   <<"type", "iunlock", "ip", "iput">>,
   <<"iput", "iput", "cwd", "end0">>,
   <<"end0", "end_op", "", "ret0">>,
   <<"ret0", "return", "0", "ret">>,
   <<"retm", "return", "-1", "ret">>}

\* sys_chdir, lines 410-433.
ChdirFlow ==
  {<<"start", "begin_op", "", "arg">>,
   <<"arg", "end_op", "", "retm">>,               \* argstr fails or namei(path) == 0
   <<"arg", "ilock", "ip", "type">>,
   <<"type", "iunlockput", "ip", "endm">>,        \* ip->type != T_DIR
   <<"type", "iunlock", "ip", "iput">>,
   <<"iput", "iput", "cwd", "end0">>,
   <<"end0", "end_op", "", "ret0">>,
   <<"ret0", "return", "0", "ret">>,
   <<"endm", "end_op", "", "retm">>,
   <<"retm", "return", "-1", "ret">>}

\* sys_munmap, lines 597-707: the checks, the write-back of lines 659-681, the
\* unmapping and the update of the VMA.
MunmapFlow ==
  {<<"start", "return", "-1", "ret">>,            \* a check of lines 608-627 fails
   <<"start", "skip", "", "collect">>,
   <<"collect", "skip", "", "unmap">>,            \* ndirty == 0
   <<"collect", "begin_op", "", "first">>,
   <<"first", "ilock", "ip", "page">>,
   <<"page", "writei", "ip", "unl">>,             \* bytes_to_write > 0
   <<"page", "skip", "", "unl">>,
   <<"unl", "iunlock", "ip", "loop">>,
   <<"loop", "ilock", "ip", "page">>,             \* i < ndirty
   <<"loop", "end_op", "", "unmap">>,
   <<"unmap", "uvmunmap", "", "vma">>,
   <<"vma", "fileclose", "vma->f", "ret0">>,      \* the whole mapping goes
   <<"vma", "skip", "", "ret0">>,
   <<"ret0", "return", "0", "ret">>}

\* One step of the system call name whose flow is Flow: a call starts when the
\* process is in no call; begin_op and end_op count the transaction, ilock,
\* iunlock and iunlockput keep the set of locked inodes.
flow_step(name, Flow) ==
  /\ \E e \in Flow :
       LET fresh == logpc.at = "ret"
           op == e[2]
           cnt(v) == IF fresh THEN 0 ELSE v
           inc(v) == IF cnt(v) < MaxCount THEN cnt(v) + 1 ELSE MaxCount
       IN
       /\ IF fresh THEN e[1] = "start" ELSE logpc.call = name /\ e[1] = logpc.at
       /\ logpc' = [call |-> name, at |-> e[4]]
       /\ lastop' = <<op, e[3]>>
       /\ outstanding' = IF op = "begin_op" THEN outstanding + 1
                         ELSE IF op = "end_op" THEN outstanding - 1
                         ELSE outstanding
       /\ nbegin' = IF op = "begin_op" THEN inc(nbegin) ELSE cnt(nbegin)
       /\ nend' = IF op = "end_op" THEN inc(nend) ELSE cnt(nend)
       /\ nmods' = IF op \in ModOps THEN inc(nmods) ELSE cnt(nmods)
       /\ ilocked' = IF op = "ilock" THEN ilocked \cup {e[3]}
                     ELSE IF op \in {"iunlock", "iunlockput"} THEN ilocked \ {e[3]}
                     ELSE ilocked
  /\ UNCHANGED nonTxn

\* The process is in no system call or in the call name.
InCall(name) == logpc.at = "ret" \/ logpc.call = name

sys_link ==
  /\ InCall("link")
  /\ flow_step("link", LinkFlow)

sys_unlink_flow ==
  /\ InCall("unlink")
  /\ flow_step("unlink", UnlinkFlow)

sys_open ==
  /\ InCall("open")
  /\ flow_step("open", OpenFlow)

sys_mkdir ==
  /\ InCall("mkdir")
  /\ flow_step("mkdir", MkdirFlow)

sys_mknod ==
  /\ InCall("mknod")
  /\ flow_step("mknod", MknodFlow)

sys_chdir ==
  /\ InCall("chdir")
  /\ flow_step("chdir", ChdirFlow)

sys_munmap ==
  /\ InCall("munmap")
  /\ flow_step("munmap", MunmapFlow)

\* ------------------------------------------------------------------ specifications
Init ==
  InitBcache /\ InitPmem /\ InitNic /\ InitNet /\ InitMmap /\ InitFs /\ InitRx /\ InitTxn

NextBcache ==
  \E t \in Threads :
    \/ bread_call(t)
    \/ bget_acquire(t)
    \/ bget_scan1(t)
    \/ bget_acquire_global(t)
    \/ bget_scan2(t)
    \/ bget_acquire_other(t)
    \/ bget_scan3(t)
    \/ bget_link(t)
    \/ bget_sleep(t)
    \/ bread_check(t)
    \/ brelse_call(t)
    \/ ref_acquire(t)
    \/ brelse_dec(t)
    \/ bpin_call(t)
    \/ bpin_inc(t)
    \/ bunpin_call(t)
    \/ bunpin_dec(t)

SpecBcache == Init /\ [][NextBcache]_vars

NextPmem ==
  \E t \in Threads :
    \/ kalloc_call(t)
    \/ kmem_acquire(t)
    \/ kalloc_pop(t)
    \/ kalloc_ret(t)
    \/ kfree_call(t)
    \/ kfree_push(t)
    \/ superalloc_pop(t)
    \/ superalloc_ret(t)
    \/ superfree_call(t)
    \/ superfree_push(t)

SpecPmem == Init /\ [][NextPmem]_vars

\* The 4 KiB pool with callers that may pass any address to kfree.
NextKfree ==
  \E t \in Threads :
    \/ kalloc_call(t)
    \/ kmem_acquire(t)
    \/ kalloc_pop(t)
    \/ kalloc_ret(t)
    \/ kfree_any(t)
    \/ kfree_push(t)

SpecKfree == Init /\ [][NextKfree]_vars

NextNic ==
  \/ \E t \in Threads :
       \/ send_call(t)
       \/ tx_fill(t)
       \/ send_after(t)
       \/ send_ret(t)
       \/ arp_rx(t)
       \/ arp_after(t)
  \/ nic_complete

SpecNic == Init /\ [][NextNic]_vars

NextNet ==
  \/ \E t \in Threads :
       \/ bind_call(t)
       \/ net_acquire(t)
       \/ bind_scan(t)
       \/ unbind_call(t)
       \/ recv_call(t)
       \/ recv_find(t)
       \/ recv_loop(t)
       \/ recv_copy(t)
       \/ sys_ret(t)
  \/ iprx_call
  \/ iprx_hdr
  \/ iprx_acquire
  \/ iprx_enqueue

SpecNet == Init /\ [][NextNet]_vars

\* The VMA table under mmap and munmap calls of a process that touches no page.
NextMmap ==
  \/ mmap_call
  \/ munmap_call

SpecMmap == Init /\ [][NextMmap]_vars

\* One large shared mapping, touched page by page and unmapped.
NextWb ==
  \/ mmap_big
  \/ munmap_call
  \/ mmap_fault
  \/ user_store

SpecWb == Init /\ [][NextWb]_vars

\* create, link and unlink calls of two processes on the root directory.
NextFs ==
  \E t \in Threads :
    \/ create(t)
    \/ link_call(t)
    \/ link_lock(t)
    \/ link_dir(t)
    \/ sys_unlink(t)

SpecFs == Init /\ [][NextFs]_vars

\* The device, the interrupt thread in e1000_recv and net_rx, and a process that
\* takes packets off the socket queue.
NextRx ==
  \/ nic_rx
  \/ e1000_recv_acquire
  \/ e1000_recv_loop
  \/ rx_kmem_acquire
  \/ rx_kalloc
  \/ rx_kfree
  \/ e1000_recv_replace
  \/ net_rx
  \/ ip_rx
  \/ iprx_pkt
  \/ wakeup_acquire
  \/ wakeup_release
  \/ arp_tx
  \/ arp_sent
  \/ rx_consume

SpecRx == Init /\ [][NextRx]_vars

\* Page faults of every kind on small mappings, with stores and munmap.
NextFault ==
  \/ mmap_any
  \/ fault_any
  \/ user_store
  \/ munmap_whole

SpecFault == Init /\ [][NextFault]_vars

NextUnlink ==
  \/ create_entry(FsProc, SeqCreatePaths)
  \/ link_call(FsProc)
  \/ link_lock(FsProc)
  \/ link_dir(FsProc)
  \/ unlink_entry(FsProc, SeqUnlinkPaths)

SpecUnlink == Init /\ [][NextUnlink]_vars

\* One process that makes the path system calls and munmap, one after the other.
NextTxn ==
  \/ sys_link
  \/ sys_unlink_flow
  \/ sys_open
  \/ sys_mkdir
  \/ sys_mknod
  \/ sys_chdir
  \/ sys_munmap

SpecTxn == Init /\ [][NextTxn]_vars

\* Concurrent bind calls alone, until the socket table is full.
NextBind ==
  \E t \in Threads :
    \/ bind_any(t)
    \/ net_acquire(t)
    \/ bind_scan(t)
    \/ sys_ret(t)

SpecBind == Init /\ [][NextBind]_vars

\* bind and recv against ip_rx, with the scheduling the kernel gives them: a thread
\* that holds netlock runs on a CPU with interrupts off and goes on to release it
\* (weak fairness of the steps under the lock, and of the copy-out that follows);
\* a CPU spinning in acquire gets the lock if it is free again and again
\* (strong fairness of the acquire steps).
NextNetFair ==
  \/ \E t \in Threads :
       \/ bind_call(t)
       \/ net_acquire(t)
       \/ bind_scan(t)
       \/ recv_call(t)
       \/ recv_find(t)
       \/ recv_loop(t)
       \/ recv_copy(t)
       \/ sys_ret(t)
  \/ iprx_few
  \/ iprx_hdr
  \/ iprx_acquire
  \/ iprx_enqueue

SpecNetFair ==
  /\ Init
  /\ [][NextNetFair]_vars
  /\ \A t \in Threads :
       /\ WF_vars(bind_scan(t) \/ recv_find(t) \/ recv_loop(t) \/ recv_copy(t))
       /\ SF_vars(net_acquire(t))
  /\ WF_vars(iprx_enqueue)

\* No socket call is under way, no frame is in ip_rx, and a process sleeps in recv.
RecvAsleep ==
  /\ netlock = 0
  /\ ipc = "idle"
  /\ \A t \in Threads : upc[t] \in {"idle", "recv_sleep"}
  /\ \E t \in Threads : upc[t] = "recv_sleep"

\* The blocking calls of the buffer cache and of the sockets side by side: bread
\* and brelse while the sockets are untouched or a process sleeps in recv, bind,
\* recv and ip_rx while the buffer cache is untouched.
NextSusp ==
  \/ /\ InitNet \/ RecvAsleep
     /\ \E t \in Threads :
          /\ upc[t] = "idle"
          /\ \/ bread_call(t)
             \/ bget_acquire(t)
             \/ bget_scan1(t)
             \/ bget_acquire_global(t)
             \/ bget_scan2(t)
             \/ bget_acquire_other(t)
             \/ bget_scan3(t)
             \/ bget_link(t)
             \/ bget_sleep(t)
             \/ bread_check(t)
             \/ brelse_call(t)
             \/ ref_acquire(t)
             \/ brelse_dec(t)
  \/ /\ InitBcache
     /\ NextNetFair

SpecSusp == Init /\ [][NextSusp]_vars

\* ================================================================== BCACHE claims
\* The buckets whose list, walked from the head by next, reaches buffer b.
BucketsOf(b) ==
  {i \in Buckets : next[HeadOf(i)] # HeadOf(i) /\ \E j \in 1..Len(FwdList(i)) : FwdList(i)[j] = b}
Linked(b) == BucketsOf(b) # {}

\* A thread between the return of bread and its call of brelse.
InUse(t) == pc[t] \in {"hold", "bpin_acq", "bpin_inc", "bunpin_acq", "bunpin_dec"}
\* A thread that has unlinked lb[t] from its bucket and not yet linked it again.
Moving(t) == pc[t] \in {"bget_acq3", "bget_link"}

\* C1: at most one buffer linked in the cache carries a given (dev, blockno) that
\* callers ask for, and every refcnt is non-negative.
C1_Uniqueness ==
  /\ \A b1, b2 \in Bufs :
       (/\ b1 # b2 /\ Linked(b1) /\ Linked(b2)
        /\ dev[b1] \in Devs /\ blockno[b1] \in Blocks)
       => ~(dev[b1] = dev[b2] /\ blockno[b1] = blockno[b2])
  /\ \A b \in Bufs : refcnt[b] >= 0

\* The list of bucket i is a circular doubly-linked list of distinct buffers
\* through its head sentinel.
WellFormed(i) ==
  IF next[HeadOf(i)] = HeadOf(i) THEN prev[HeadOf(i)] = HeadOf(i)
  ELSE LET c == <<HeadOf(i)>> \o FwdList(i)
           n == Len(c)
       IN /\ n <= NBUF + 1
          /\ \A j \in 2..n : c[j] \in Bufs
          /\ \A j \in 1..n : \A k \in (j + 1)..n : c[j] # c[k]
          /\ \A j \in 1..n : next[c[j]] = c[(j % n) + 1] /\ prev[c[(j % n) + 1]] = c[j]

\* C2 as stated: in every reachable state each buffer is linked into exactly one
\* bucket list and every bucket list is well formed.
C2_ExactlyOneBucket ==
  /\ \A b \in Bufs : Cardinality(BucketsOf(b)) = 1
  /\ \A i \in Buckets : WellFormed(i)

\* C2 as amended: each buffer is linked into at most one bucket list, and into
\* exactly one unless it is the buffer that the holder of bcache.lock has unlinked
\* from its old bucket and not yet linked into the target bucket; every bucket list
\* is well formed.
C2_Containment ==
  /\ \A b \in Bufs :
       \/ Cardinality(BucketsOf(b)) = 1
       \/ /\ BucketsOf(b) = {}
          /\ \E t \in Threads : Moving(t) /\ lb[t] = b /\ bclock = t
  /\ \A i \in Buckets : WellFormed(i)

C2_Witness ==
  \E t \in Threads :
    /\ pc[t] = "bget_link" /\ BucketsOf(lb[t]) = {}
    /\ \E b \in Bufs : BucketsOf(b) = {1}

\* C3: every step that rewrites the (dev, blockno) of a buffer, clears its valid
\* flag or changes the bucket it is linked in finds its refcnt equal to 0, and a
\* buffer that has been unlinked for a move still has refcnt 0 when it is relinked.
C3_PinnedNotEvicted ==
  [][\A b \in Bufs :
       (\/ dev'[b] # dev[b]
        \/ blockno'[b] # blockno[b]
        \/ (valid[b] = 1 /\ valid'[b] = 0)
        \/ (<<next, prev>>' # <<next, prev>> /\ BucketsOf(b)' # BucketsOf(b)))
       => refcnt[b] = 0]_vars

C3_Witness ==
  \E t \in Threads :
    /\ pc[t] = "bget_link"
    /\ \E b \in SeqSet(FwdList(li[t])) : refcnt[b] > 0

\* The spinlock a thread is about to acquire, and the thread that holds it.
HeldBuckets(t) == {i \in Buckets : bklock[i] = t}
BlockedBy(t) ==
  IF pc[t] \in {"bget_acq1", "bget_acq2", "bget_acq3"} THEN bklock[Tgt(t)]
  ELSE IF pc[t] = "bget_acqo" THEN bklock[li[t]]
  ELSE IF pc[t] \in {"brelse_acq", "bpin_acq", "bunpin_acq"} THEN bklock[BucketOfBuf(lb[t])]
  ELSE IF pc[t] = "bget_acqg" THEN bclock
  ELSE 0
\* A thread waiting for a sleep-lock (it may wait for as long as the holder likes).
Sleeping(t) == pc[t] = "bget_sleep" /\ slock[lb[t]] # 0
HoldsSpin(t) == HeldBuckets(t) # {} \/ bclock = t

\* C4: no thread holds two bucket locks without bcache.lock, none waits for
\* bcache.lock while it holds a bucket lock, none waits for a sleep-lock while it
\* holds a spinlock, and no set of threads waits in a cycle for spinlocks held
\* inside the set.
C4_LockDiscipline ==
  /\ \A t \in Threads : Cardinality(HeldBuckets(t)) >= 2 => bclock = t
  /\ \A t \in Threads : pc[t] = "bget_acqg" => HeldBuckets(t) = {}
  /\ \A t \in Threads : pc[t] = "bget_sleep" => ~HoldsSpin(t)
  /\ \A t \in Threads : pc[t] \in {"idle", "hold"} => ~HoldsSpin(t)
  /\ ~ \E S \in SUBSET Threads : S # {} /\ \A t \in S : BlockedBy(t) \in S

C4_Witness ==
  \E t, u \in Threads :
    /\ t # u /\ bclock = t /\ HeldBuckets(t) # {}
    /\ BlockedBy(u) = t

\* C5: bget reaches panic("bget: no buffers") only when no buffer of the cache has
\* refcnt == 0.
C5_PanicOnlyWhenFull ==
  \A t \in Threads : pc[t] = "panic_bget" => \A b \in Bufs : refcnt[b] > 0

\* C6: when bread(dev, blk) has returned b, the caller holds b's sleep-lock, b has
\* the identity asked for, is valid and referenced, and the disk was read in this
\* call exactly when b was not valid as bget returned it.
C6_BreadPost ==
  \A t \in Threads :
    InUse(t) =>
      /\ slock[lb[t]] = t
      /\ dev[lb[t]] = req[t][1] /\ blockno[lb[t]] = req[t][2]
      /\ valid[lb[t]] = 1
      /\ refcnt[lb[t]] >= 1
      /\ didRead[t] <=> (bgetValid[t] = 0)

C6_Witness ==
  \E t, u \in Threads :
    /\ pc[t] = "hold" /\ didRead[t]
    /\ pc[u] = "hold" /\ ~didRead[u]

\* C7: at most one thread at a time is between the return of bread(dev, blk) and
\* its brelse for the same (dev, blk).
C7_Exclusive ==
  \A t, u \in Threads : (t # u /\ InUse(t) /\ InUse(u)) => req[t] # req[u]

\* C8: brelse leaves valid, dev and blockno alone; a bget that finds its block
\* cached in the target bucket returns that buffer without touching it; and the
\* disk is read at most once for each assignment of an identity to a buffer, only
\* into a buffer that is not valid.
C8_BufferReuse ==
  [][/\ \A b \in Bufs : readsSince'[b] <= 1 /\ (valid'[b] = 1 <=> readsSince'[b] = 1)
     /\ \A t \in Threads :
          /\ (pc'[t] # pc[t] /\ pc'[t] \in {"brelse_acq", "brelse_dec", "idle"})
             => (dev' = dev /\ blockno' = blockno /\ valid' = valid)
          /\ (/\ pc[t] = "bget_scan1" /\ pc'[t] # "bget_scan1"
              /\ \E b \in SeqSet(FwdList(Tgt(t))) :
                   dev[b] = req[t][1] /\ blockno[b] = req[t][2])
             => /\ pc'[t] = "bget_sleep"
                /\ lb'[t] \in SeqSet(FwdList(Tgt(t)))
                /\ dev[lb'[t]] = req[t][1] /\ blockno[lb'[t]] = req[t][2]
                /\ refcnt'[lb'[t]] = refcnt[lb'[t]] + 1
                /\ (dev' = dev /\ blockno' = blockno /\ valid' = valid)
          /\ (pc[t] = "bread_check" /\ pc'[t] = "hold")
             => (didRead'[t] <=> valid[lb[t]] = 0)]_vars

C8_Witness ==
  \E t \in Threads :
    /\ pc[t] = "idle"
    /\ \E u \in Threads, b \in Bufs :
         /\ pc[u] = "hold" /\ lb[u] = b /\ ~didRead[u]
         /\ readsSince[b] = 1 /\ refcnt[b] = 1 /\ ~pins[b]

\* C9: on the slow path of bget a search of another bucket that holds an unused
\* buffer unlinks exactly one buffer, whose refcnt is 0, and changes nothing else;
\* the link step puts that buffer into the target bucket with the identity asked
\* for, valid = 0 and refcnt = 1, and every other buffer keeps its bucket,
\* identity, valid and refcnt; bget gives up only after the last bucket.
C9_EvictionFrame ==
  [][\A t \in Threads :
       /\ (pc[t] = "bget_scan3" /\ pc'[t] # "bget_scan3")
          => IF \E b \in SeqSet(FwdList(li[t])) : refcnt[b] = 0
             THEN /\ pc'[t] = "bget_acq3"
                  /\ li[t] # Tgt(t)
                  /\ \E m \in Bufs :
                       /\ lb'[t] = m
                       /\ refcnt[m] = 0
                       /\ BucketsOf(m) = {li[t]}
                       /\ BucketsOf(m)' = {}
                       /\ \A b \in Bufs \ {m} : BucketsOf(b)' = BucketsOf(b)
                  /\ dev' = dev /\ blockno' = blockno /\ valid' = valid /\ refcnt' = refcnt
             ELSE /\ UNCHANGED <<next, prev, dev, blockno, valid, refcnt>>
                  /\ pc'[t] = "panic_bget" => NextOther(li[t], Tgt(t)) >= NBUCKETS
       /\ (pc[t] = "bget_link" /\ pc'[t] # "bget_link")
          => /\ pc'[t] = "bget_sleep"
             /\ lb'[t] = lb[t]
             /\ BucketsOf(lb[t])' = {Tgt(t)}
             /\ dev'[lb[t]] = req[t][1] /\ blockno'[lb[t]] = req[t][2]
             /\ valid'[lb[t]] = 0 /\ refcnt'[lb[t]] = 1
             /\ \A b \in Bufs \ {lb[t]} :
                  /\ BucketsOf(b)' = BucketsOf(b)
                  /\ dev'[b] = dev[b] /\ blockno'[b] = blockno[b]
                  /\ valid'[b] = valid[b] /\ refcnt'[b] = refcnt[b]]_vars

C9_Witness ==
  \E t \in Threads :
    /\ pc[t] = "bget_link" /\ BucketsOf(lb[t]) = {} /\ refcnt[lb[t]] = 0
    /\ FwdList(Tgt(t)) # <<>>
    /\ \A b \in SeqSet(FwdList(Tgt(t))) : refcnt[b] > 0

\* ================================================================== PMEM claims
\* The page addresses of [lo, hi) for a page-aligned lo.
PagesIn(lo, hi) == {lo + j * PGSIZE : j \in 0..(((hi - lo) \div PGSIZE) - 1)}
\* The reserved superpage slab [SlabStart, SlabEnd) and its 2 MiB frames.
SlabStart == SUPERPGROUNDUP(KEnd)
SlabEnd == SlabStart + NSUPERPAGES * SUPERPGSIZE
SuperFrames == {SlabStart + j * SUPERPGSIZE : j \in 0..(NSUPERPAGES - 1)}
\* The 4 KiB frames: the whole pages of [end, PHYSTOP) outside the slab.
Frames == PagesIn(PGROUNDUP(KEnd), SlabStart) \cup PagesIn(SlabEnd, PHYSTOP)

RECURSIVE KWalk(_, _)
\* The pages on the free list, first to last, following r->next from
\* kmem.freelist while it points at a page.
KWalk(p, fuel) ==
  IF p \notin DOMAIN knext \/ fuel = 0 THEN <<>>
  ELSE <<p>> \o KWalk(knext[p], fuel - 1)

KFreeSeq == KWalk(kfreelist, Cardinality(DOMAIN knext) + 1)
\* Where the walk of the free list stops: 0 for a list that ends.
RECURSIVE KEnd_of(_, _)
KEnd_of(p, fuel) ==
  IF p \notin DOMAIN knext \/ fuel = 0 THEN p ELSE KEnd_of(knext[p], fuel - 1)

\* The pages a thread owns: those it got from kalloc, the one kalloc is about to
\* return to it, and the one it has passed to kfree that is not yet on the list.
KOwned(t) ==
  kheld[t] \cup (IF kpc[t] \in {"kalloc_ret", "kfree_acq", "kfree_push"} /\ kr[t] # 0
                 THEN {kr[t]} ELSE {})

\* C10: a page that kalloc returns is neither held by a thread, nor being returned
\* to another thread, nor on the free list, until it is passed to kfree; and the
\* free list ends and holds no page twice.
C10_NonAliasing ==
  /\ \A t \in Threads :
       (kpc[t] = "kalloc_ret" /\ kr[t] # 0) =>
         /\ kr[t] \in Frames
         /\ kr[t] \notin kheld[t]
  /\ \A t, u \in Threads : t # u => KOwned(t) \cap KOwned(u) = {}
  /\ \A t \in Threads : KOwned(t) \cap SeqSet(KFreeSeq) = {}
  /\ \A j, k \in 1..Len(KFreeSeq) : j # k => KFreeSeq[j] # KFreeSeq[k]
  /\ KEnd_of(kfreelist, Cardinality(DOMAIN knext) + 1) = 0

\* A page that was freed and is handed out again while another thread holds a
\* page: kinit links the highest page in front of another page, so a highest page
\* that kalloc pops with r->next == 0 has come back through kfree.
C10_Witness ==
  \E t, u \in Threads :
    /\ t # u
    /\ kpc[t] = "kalloc_ret" /\ kr[t] = PHYSTOP - PGSIZE
    /\ knext[kr[t]] = 0
    /\ kheld[u] # {}

RECURSIVE SWalk(_, _)
\* The superpages on the superpage free list, first to last.
SWalk(p, fuel) ==
  IF p \notin DOMAIN supernext \/ fuel = 0 THEN <<>>
  ELSE <<p>> \o SWalk(supernext[p], fuel - 1)

SFreeSeq == SWalk(superfreelist, Cardinality(DOMAIN supernext) + 1)
RECURSIVE SEnd_of(_, _)
SEnd_of(p, fuel) ==
  IF p \notin DOMAIN supernext \/ fuel = 0 THEN p ELSE SEnd_of(supernext[p], fuel - 1)

\* The superpages a thread owns: held, being returned to it, or being freed by it.
SOwned(t) ==
  superheld[t] \cup
    (IF kpc[t] \in {"superalloc_ret", "superfree_push"} /\ kr[t] # 0
     THEN {kr[t]} ELSE {})

\* How many times a frame occurs on a list.
TimesIn(seq, f) == Cardinality({j \in 1..Len(seq) : seq[j] = f})

\* C11: after kinit and any sequence of kalloc, kfree, superalloc and superfree
\* calls that free only held frames, every 4 KiB frame is either once on the 4 KiB
\* free list or owned by exactly one caller, every 2 MiB frame is either once on
\* the superpage free list or owned by exactly one caller, the 4 KiB free list
\* holds no page of the reserved slab [SUPERPGROUNDUP(end), SUPERPGROUNDUP(end) +
\* NSUPERPAGES * 2 MiB), the superpage free list holds only 2 MiB frames of that
\* slab, and nothing else (the kernel image below end) is on a list or handed out.
C11_Partition ==
  LET kseq == KFreeSeq
      sseq == SFreeSeq
      kown == [t \in Threads |-> KOwned(t)]
      sown == [t \in Threads |-> SOwned(t)]
  IN /\ \A f \in Frames :
          TimesIn(kseq, f) + Cardinality({t \in Threads : f \in kown[t]}) = 1
     /\ \A f \in SuperFrames :
          TimesIn(sseq, f) + Cardinality({t \in Threads : f \in sown[t]}) = 1
     /\ \A j \in 1..Len(kseq) :
          /\ ~(SlabStart <= kseq[j] /\ kseq[j] < SlabEnd)
          /\ kseq[j] \in Frames
     /\ \A j \in 1..Len(sseq) : sseq[j] \in SuperFrames
     /\ \A t \in Threads : kown[t] \subseteq Frames /\ sown[t] \subseteq SuperFrames
     /\ KEnd_of(kfreelist, Cardinality(DOMAIN knext) + 1) = 0
     /\ SEnd_of(superfreelist, Cardinality(DOMAIN supernext) + 1) = 0

\* A superpage and the page above the slab are held, the page below the slab is
\* the head of the 4 KiB list, and another thread is freeing a superpage.
C11_Witness ==
  \E t, u \in Threads :
    /\ t # u
    /\ superheld[t] # {}
    /\ kheld[t] \cap PagesIn(SlabEnd, PHYSTOP) # {}
    /\ kfreelist = PGROUNDUP(KEnd)
    /\ kpc[u] = "superfree_push" /\ kr[u] \in SuperFrames

\* C12: a call kfree(pa) panics exactly when pa is not 4 KiB-aligned, is below end
\* or is at or above PHYSTOP, and then leaves the free list and its links as they
\* were; otherwise the call goes on to take kmem.lock, and its push makes pa the
\* head of the free list in front of the pages that were on it.
C12_KfreeFatal ==
  [][\A t \in Threads :
       /\ (kpc[t] = "idle" /\ kpc'[t] \in {"panic_kfree", "kfree_acq"})
          => /\ (kpc'[t] = "panic_kfree") <=>
                  (\/ kr'[t] % PGSIZE # 0
                   \/ kr'[t] < KEnd
                   \/ kr'[t] >= PHYSTOP)
             /\ kfreelist' = kfreelist
             /\ kpc'[t] = "panic_kfree" => knext' = knext
       /\ (kpc[t] = "kfree_push" /\ kpc'[t] # "kfree_push")
          => /\ kfreelist' = kr[t]
             /\ KFreeSeq' = <<kr[t]>> \o KFreeSeq]_vars

\* One thread has panicked in kfree on the page below end, and a page freed by
\* the other thread is the head of a free list of several pages.
C12_Witness ==
  \E t, u \in Threads :
    /\ t # u
    /\ kpc[t] = "panic_kfree" /\ kr[t] = PGROUNDUP(KEnd) - PGSIZE
    /\ kpc[u] = "idle"
    /\ kfreelist = PGROUNDUP(KEnd) /\ knext[kfreelist] # 0

\* ================================================================== NIC claims
\* The driver writes TX slot i in this step: its descriptor's address, length or
\* command, or its stash entry, changes (the device only ever sets DD).
DriverWrites(i) ==
  \/ tx_ring'[i].addr # tx_ring[i].addr
  \/ tx_ring'[i].length # tx_ring[i].length
  \/ tx_ring'[i].cmd # tx_ring[i].cmd
  \/ tx_bufs'[i] # tx_bufs[i]
  \/ (HasDD(tx_ring[i].status) /\ ~HasDD(tx_ring'[i].status))

\* C13: under any interleaving of e1000_transmit calls and device completions the
\* driver writes the descriptor or the stash entry of a TX slot only when the DD
\* bit of that slot is set; and a call of e1000_transmit that finds DD clear in the
\* slot at TDT returns -1 and leaves every descriptor, every stash entry and TDT as
\* they were.
C13_TxSlotOwnership ==
  [][/\ \A i \in TxSlots : DriverWrites(i) => HasDD(tx_ring[i].status)
     /\ \A t \in Threads :
          (txseq'[t] # txseq[t] /\ txseq'[t] > 0 /\ ~HasDD(tx_ring[regTDT].status))
          => /\ npc'[t] = "tx_done" /\ txret'[t] = -1
             /\ UNCHANGED <<tx_ring, tx_bufs, regTDT>>]_vars

\* The device has completed slot 0, the driver has used it a second time, and a
\* later e1000_transmit has found slot 1 still owned by the device.
C13_Witness ==
  \E t \in Threads :
    /\ npc[t] = "tx_done" /\ txret[t] = -1
    /\ ~stalled /\ regTDT = 1 /\ ntdt[t] = 1
    /\ tx_bufs[0] # 0 /\ ~HasDD(tx_ring[1].status)

\* C14: with a device that never sets DD and no ARP reply sent, a send system call
\* whose e1000_transmit is among the first 16 returns 0, and one whose
\* e1000_transmit comes after 16 others returns -1 while the 16 descriptors and
\* stashed buffers are still those of the 16 accepted frames.
C14_TxRingFull ==
  \A t \in Threads :
    (npc[t] = "send_ret" /\ stalled /\ seen_arp = 0 /\ txseq[t] > 0)
    => IF txseq[t] <= TX_RING_SIZE
       THEN sysret[t] = 0
       ELSE /\ sysret[t] = -1
            /\ \A i \in TxSlots :
                 /\ tx_bufs[i] # 0 /\ tx_ring[i].addr = tx_bufs[i]
                 /\ ~HasDD(tx_ring[i].status)
            /\ \A i, j \in TxSlots : i # j => tx_bufs[i] # tx_bufs[j]

\* C15: no page is freed twice or while the device owns it, and every allocated
\* page has an owner that will free it: the stash of a TX slot, a call that is
\* still running with the page as its buf or inbuf, or the receive ring.
C15_TxPageLifetime ==
  /\ ~badfree
  /\ \A p \in NicPages \ nfree :
       \/ \E i \in TxSlots : tx_bufs[i] = p
       \/ \E t \in Threads : npc[t] # "idle" /\ (nbuf[t] = p \/ ninbuf[t] = p)
       \/ (p = RxPage /\ seen_arp = 0)


\* ================================================================== NET claims
\* The ip_rx step that decides on the frame, for a bound port.
IprxDecides(i) == ipc = "iprx_locked" /\ ipc' = "idle" /\ FindSock(iport) = i

\* The sys_recv step of thread t that unlinks a packet.
RecvTakes(t) == upc[t] = "recv_loop" /\ upc'[t] = "recv_copy"

\* C16: queue_len of every socket is the number of packets linked in its queue and
\* lies in 0..16; a frame arriving for a socket whose queue_len is 16 is freed and
\* dropped: ip_rx returns with netlock released, and the queue, its length and the
\* receiving threads are as before.
C16_QueueBound ==
  /\ [](\A i \in Socks :
          /\ sock_qlen[i] = Len(sock_queue[i])
          /\ sock_qlen[i] >= 0
          /\ sock_qlen[i] <= QUEUE_MAX)
  /\ [][\A i \in Socks :
          (IprxDecides(i) /\ sock_qlen[i] = QUEUE_MAX)
            => /\ sock_queue' = sock_queue
               /\ sock_qlen' = sock_qlen
               /\ netbufs' = netbufs - 1
               /\ netpkts' = netpkts
               /\ netlock' = 0
               /\ upc' = upc]_vars

C16_Witness ==
  \E i \in Socks :
    /\ sock_used[i] = 1
    /\ sock_qlen[i] = QUEUE_MAX
    /\ sock_arrived[i] = QUEUE_MAX + 1
    /\ ipc = "idle"
    /\ netbufs = QUEUE_MAX

\* The packets lastrecv + 1 .. sock_enq of socket i, oldest first.
InArrivalOrder(i) == [j \in 1..(sock_enq[i] - lastrecv[i]) |-> lastrecv[i] + j]

\* C17: the queue of a socket holds its packets in arrival order, ip_rx links a
\* packet at the tail and recv takes the head, so the packets of a port are
\* delivered in the order they arrived; of 20 frames that arrive with no recv in
\* between the first 16 are queued and the last 4 dropped, and the recv calls that
\* follow return those 16 in arrival order.
C17_Fifo ==
  /\ [](\A i \in Socks :
          /\ sock_queue[i] = InArrivalOrder(i)
          /\ ~deqEarly[i] =>
               /\ sock_arrived[i] <= QUEUE_MAX => sock_enq[i] = sock_arrived[i]
               /\ (sock_arrived[i] >= QUEUE_MAX /\ sock_arrived[i] < Burst)
                    => sock_enq[i] = QUEUE_MAX /\ lastrecv[i] = 0
               /\ (sock_arrived[i] = Burst /\ lastrecv[i] < QUEUE_MAX)
                    => /\ sock_enq[i] >= QUEUE_MAX
                       /\ Head(sock_queue[i]) = lastrecv[i] + 1
                       /\ lastrecv[i] = 0 => sock_enq[i] = QUEUE_MAX)
  /\ [][/\ \A t \in Threads :
             RecvTakes(t) =>
               /\ sock_queue[usock[t]] # <<>>
               /\ upkt'[t] = Head(sock_queue[usock[t]])
               /\ sock_queue'[usock[t]] = Tail(sock_queue[usock[t]])
               /\ lastrecv'[usock[t]] = upkt'[t]
        /\ \A i \in Socks :
             sock_enq'[i] # sock_enq[i] =>
               /\ sock_enq'[i] = sock_enq[i] + 1
               /\ sock_queue'[i] = Append(sock_queue[i], sock_enq'[i])]_vars

C17_Witness ==
  \E t \in Threads :
    /\ upc[t] = "recv_copy"
    /\ upkt[t] = QUEUE_MAX
    /\ sock_arrived[usock[t]] = Burst
    /\ ~deqEarly[usock[t]]
    /\ sock_enq[usock[t]] = QUEUE_MAX


\* The sockets in use.
SocksInUse == {i \in Socks : sock_used[i] # 0}

\* The sys_bind step of thread t that decides under netlock.
BindDecides(t) == upc[t] = "bind_scan" /\ upc'[t] = "bind_ret"

\* The socket table is as before.
TableSame ==
  /\ sock_used' = sock_used
  /\ sock_port' = sock_port
  /\ sock_queue' = sock_queue
  /\ sock_qlen' = sock_qlen

\* C18: at most one socket in use holds a given port, whatever the interleaving of
\* concurrent bind calls; bind(port) returns -1 and leaves the table as it was when
\* port is outside 0..65535, is already bound, or all 16 sockets are in use;
\* otherwise it returns 0 and marks exactly one free socket in use, with the port
\* and an empty queue.
C18_SocketTable ==
  /\ [](/\ \A i, j \in SocksInUse : sock_port[i] = sock_port[j] => i = j
        /\ \A i \in SocksInUse : sock_port[i] >= 0 /\ sock_port[i] <= 65535
        /\ \A t, u \in Threads :
             (/\ upc[t] = "bind_ret" /\ uret[t] = 0
              /\ upc[u] = "bind_ret" /\ uret[u] = 0
              /\ uport[t] = uport[u]) => t = u)
  /\ [][\A t \in Threads :
          /\ (upc[t] = "idle" /\ upc'[t] \in {"bind_ret", "bind_acq"}) =>
               /\ TableSame
               /\ (uport'[t] < 0 \/ uport'[t] > 65535)
                    <=> (upc'[t] = "bind_ret" /\ uret'[t] = -1)
          /\ BindDecides(t) =>
               IF \/ \E i \in SocksInUse : sock_port[i] = uport[t]
                  \/ SocksInUse = Socks
               THEN uret'[t] = -1 /\ TableSame
               ELSE /\ uret'[t] = 0
                    /\ \E i \in Socks \ SocksInUse :
                         /\ sock_used' = [sock_used EXCEPT ![i] = 1]
                         /\ sock_port' = [sock_port EXCEPT ![i] = uport[t]]
                         /\ sock_queue'[i] = <<>>
                         /\ sock_qlen'[i] = 0
                         /\ \A j \in Socks \ {i} :
                              sock_queue'[j] = sock_queue[j] /\ sock_qlen'[j] = sock_qlen[j]]_vars

C18_Witness ==
  \E t, u \in Threads :
    /\ t # u
    /\ SocksInUse = Socks
    /\ upc[t] = "bind_ret" /\ uret[t] = -1
    /\ uport[t] >= 0 /\ uport[t] <= 65535
    /\ \A i \in Socks : sock_port[i] # uport[t]
    /\ upc[u] = "bind_ret" /\ uret[u] = 0
    /\ \E i \in Socks : sock_port[i] = Port


\* Thread t is a receiver waiting on socket i: asleep, woken and about to take
\* netlock again, or back at the test of the queue.
Waiting(t, i) == upc[t] \in {"recv_sleep", "recv_woken", "recv_loop"} /\ usock[t] = i

\* C19: a recv on a bound port whose queue is empty sleeps, and a recv returns only
\* with a packet that was queued; no wakeup is lost: no thread sleeps on a socket
\* whose queue holds a packet, and while a receiver waits the packet at the head of
\* the queue is eventually taken, by one recv only; a receiver that finds the queue
\* empty, woken or not, sleeps and takes nothing.
C19_BlockingRecv ==
  /\ [](/\ \A t \in Threads : upc[t] = "recv_sleep" => sock_queue[usock[t]] = <<>>
        /\ \A t \in Threads : upc[t] = "recv_copy" => upkt[t] >= 1 /\ upkt[t] <= lastrecv[usock[t]]
        /\ \A t, u \in Threads :
             (upc[t] = "recv_copy" /\ upc[u] = "recv_copy" /\ upkt[t] = upkt[u]) => t = u)
  /\ [][\A t \in Threads :
          /\ RecvTakes(t) => sock_queue[usock[t]] # <<>>
          /\ (upc[t] = "recv_loop" /\ upc'[t] # "recv_loop" /\ sock_queue[usock[t]] = <<>>)
               => /\ upc'[t] = "recv_sleep"
                  /\ sock_queue' = sock_queue
                  /\ sock_qlen' = sock_qlen
                  /\ netlock' = 0
          /\ (upc[t] = "recv_sleep" /\ upc'[t] # "recv_sleep")
               => upc'[t] = "recv_woken" /\ sock_queue'[usock[t]] # <<>>]_vars
  /\ \A p \in 1..MaxFairQueued :
       ((\E t \in Threads : Waiting(t, 0)) /\ sock_queue[0] # <<>> /\ Head(sock_queue[0]) = p)
         ~> (lastrecv[0] >= p)

C19_Witness ==
  \E t, u \in Threads :
    /\ upc[t] = "recv_woken"
    /\ upc[u] = "recv_copy"
    /\ usock[t] = usock[u]
    /\ sock_queue[usock[t]] = <<>>
    /\ upkt[u] = 1


\* The unbind step of thread t, for a port that is bound to socket i.
UnbindOf(t, i) == upc[t] = "idle" /\ upc'[t] = "unbind_ret" /\ FindSock(uport'[t]) = i

\* C20: unbind(port) on a bound port releases the socket: the socket is no longer
\* in use, its queued packets are freed, the threads sleeping on it are woken, and
\* the port is bound to no socket, so that frames for it are dropped and a later
\* bind(port) finds it free.
C20_UnbindReleases ==
  [][\A t \in Threads : \A i \in Socks :
       UnbindOf(t, i) =>
         /\ sock_used'[i] = 0
         /\ sock_queue'[i] = <<>>
         /\ sock_qlen'[i] = 0
         /\ netbufs' = netbufs - Len(sock_queue[i])
         /\ netpkts' = netpkts - Len(sock_queue[i])
         /\ \A u \in Threads : Waiting(u, i) => upc'[u] # "recv_sleep"
         /\ FindSock(uport'[t]) = -1]_vars


\* ================================================================== MMAP claims
UsedSlots == {i \in Slots : vmas[i].used = 1}

\* C21: the used VMA slots have pairwise disjoint ranges [addr, addr + len), each
\* entirely below TRAPFRAME and at or above the size of the process.
C21_VmaNonOverlap ==
  /\ \A i, j \in UsedSlots :
       i # j => (vmas[i].addr + vmas[i].len <= vmas[j].addr
                 \/ vmas[j].addr + vmas[j].len <= vmas[i].addr)
  /\ \A i \in UsedSlots :
       /\ vmas[i].addr >= ProcSz
       /\ vmas[i].addr + vmas[i].len <= TRAPFRAME

\* C22: every used VMA slot has a page-aligned addr, a len that is a multiple of
\* PGSIZE, and 0 < len no larger than the length mmap mapped.
C22_VmaAlignment ==
  \A i \in UsedSlots :
    /\ vmas[i].addr % PGSIZE = 0
    /\ vmas[i].len % PGSIZE = 0
    /\ vmas[i].len > 0
    /\ vmas[i].len <= PGROUNDUP(vmas[i].arglen)

\* The step is a munmap that returns 0 on the mapping of slot i.
MunmapOf(i) == mcall'.op = "munmap" /\ mcall'.ret = 0 /\ FindVma(mcall'.addr) = i

\* C23: after munmap of a range of a MAP_SHARED mapping, for every page of the
\* range that was present, the chunk of the file at the page's file offset, as far
\* as the file reaches, holds the last contents of the page; nothing is written
\* through a private mapping.
C23_WriteBack ==
  [][\A i \in Slots :
       MunmapOf(i) =>
         LET v == vmas[i]
             R == {va \in DOMAIN present : /\ va >= PGROUNDDOWN(mcall'.addr)
                                           /\ va < PGROUNDUP(mcall'.addr + mcall'.len)}
         IN IF v.flags = MAP_SHARED
            THEN \A va \in R :
                   FileOffset(v, va) < FileSize
                     => fdata'[v.f][FileOffset(v, va) \div PGSIZE] = present[va].val
            ELSE fdata' = fdata]_vars

\* C24: munmap(va, len) with the va that mmap(0, len, ...) returned and the same
\* len frees the VMA slot and drops the file reference mmap took, once; and in
\* every state the references VMAs hold on a file are as many as the used slots
\* that name it.
C24_RefBalance ==
  /\ [](\A f \in Files : fref[f] - 1 = Cardinality({i \in UsedSlots : vmas[i].f = f}))
  /\ [][\A i \in Slots :
          (/\ MunmapOf(i)
           /\ vmas[i].arglen > 0
           /\ vmas[i].len = PGROUNDUP64(vmas[i].arglen)
           /\ mcall'.addr = vmas[i].addr
           /\ mcall'.len = vmas[i].arglen)
            => /\ vmas'[i].used = 0
               /\ fref' = [fref EXCEPT ![vmas[i].f] = @ - 1]]_vars

\* A region of PGROUNDUP(len) bytes lies between the process and the trapframe,
\* clear of the used VMAs.
FreeRegion(len) ==
  \E k \in 0..(VaPages - 1) :
    /\ k * PGSIZE >= ProcSz
    /\ k * PGSIZE + PGROUNDUP(len) <= TRAPFRAME
    /\ \A i \in UsedSlots :
         \/ k * PGSIZE + PGROUNDUP(len) <= vmas[i].addr
         \/ vmas[i].addr + vmas[i].len <= k * PGSIZE

\* C27: mmap returns ~0 and leaves the VMA table and the file references as they
\* were when addr # 0, len = 0, fd is not an open descriptor, the file is not
\* readable, the mapping is shared and writable on a file that is not writable,
\* no slot is free or no free region exists; otherwise it returns a page-aligned
\* va, marks exactly one slot used and takes exactly one file reference.
C27_MmapValidation ==
  [][mcall'.op = "mmap" =>
       LET c == mcall' IN
       IF \/ c.addr # 0
          \/ c.len = 0
          \/ Ofile(c.fd) = 0
          \/ ~Readable(Ofile(c.fd))
          \/ (c.flags = MAP_SHARED /\ HasBit(c.prot, PROT_WRITE) /\ ~Writable(Ofile(c.fd)))
          \/ UsedSlots = Slots
          \/ ~FreeRegion(c.len)
       THEN c.ret = U64(-1) /\ vmas' = vmas /\ fref' = fref
       ELSE /\ c.ret % PGSIZE = 0
            /\ \E i \in Slots \ UsedSlots :
                 /\ vmas'[i].used = 1
                 /\ vmas'[i].addr = c.ret
                 /\ \A j \in Slots \ {i} : vmas'[j] = vmas[j]
            /\ fref' = [fref EXCEPT ![Ofile(c.fd)] = @ + 1]]_vars

\* The step is a call of munmap.
MunmapStep == mcall'.op = "munmap" /\ mcall' # mcall

\* The range of the call c lies in the mapping v and starts at its start or ends at
\* its end.
TrimOrRemove(c, v) ==
  /\ v.used = 1
  /\ c.addr >= v.addr
  /\ c.addr + c.len <= v.addr + v.len
  /\ c.addr = v.addr \/ c.addr + c.len = v.addr + v.len

\* C33: munmap range validation.  munmap returns 0 only for a range that trims the
\* mapping that covers addr from its start or from its end or removes it; for every
\* other range it returns -1 and changes no mapping, no page and no file.
C33_MunmapRange ==
  [][MunmapStep =>
       LET c == mcall'
           i == FindVma(c.addr)
           good == i # -1 /\ TrimOrRemove(c, vmas[i])
       IN /\ c.ret = 0 => good
          /\ ~good => c.ret = -1 /\ UNCHANGED <<vmas, fref, present, fdata>>]_vars

\* The addresses of the pages that lie, whole or in part, in the mapping v.
PagesOfVma(v) ==
  {a \in {k * PGSIZE : k \in 0..(VaPages - 1)} :
     v.used = 1 /\ a + PGSIZE > v.addr /\ a < v.addr + v.len}

\* C36: Trim preserves the file mapping.  When munmap returns 0 and the mapping is
\* still there, every page that is still in it has the file offset it had before,
\* the one the page-fault handler reads from and a later munmap writes to.
C36_TrimKeepsOffsets ==
  [][MunmapStep /\ mcall'.ret = 0 =>
       LET i == FindVma(mcall'.addr) IN
       vmas'[i].used = 1 =>
         \A a \in PagesOfVma(vmas'[i]) : FileOffset(vmas'[i], a) = FileOffset(vmas[i], a)]_vars

\* A two-page mapping has lost its first page: one page is left, at file offset
\* PGSIZE.
C36_Witness ==
  /\ mcall.op = "munmap" /\ mcall.ret = 0 /\ mcall.len = PGSIZE
  /\ \E i \in Slots :
       /\ Whole(i)
       /\ vmas[i].arglen = 2 * PGSIZE
       /\ vmas[i].len = PGSIZE
       /\ vmas[i].offset = PGSIZE
       /\ vmas[i].addr = mcall.addr + PGSIZE

\* The step is a page fault in handle_mmap_fault.
FaultStep == mcall'.op = "fault" /\ <<mcall, present, mheld>>' # <<mcall, present, mheld>>

\* C34: mmap_fault.  A fault at an address that no used VMA covers, or in a page
\* that is mapped already, returns -1 and leaves the page table alone.  Any other
\* fault either returns 0, with one more page allocated and mapped at
\* PGROUNDDOWN(va), holding the file's data at vma.offset + (PGROUNDDOWN(va) -
\* vma.addr) or zeroes beyond the end of the file, with PTE_U and the R, W and X
\* bits of prot; or it returns -1 with the page table as before and no page kept.
C34_MmapFault ==
  [][FaultStep =>
       LET va == mcall'.addr
           i == FindVma(va)
           v == vmas[i]
           pg == PGROUNDDOWN(va)
           off == U64(v.offset + U64(pg - v.addr))
           failed == mcall'.ret = -1 /\ present' = present /\ mheld' = mheld
       IN IF i = -1 \/ pg \in DOMAIN present
          THEN failed
          ELSE \/ failed
               \/ /\ mcall'.ret = 0
                  /\ mheld' = mheld + 1
                  /\ DOMAIN present' = DOMAIN present \cup {pg}
                  /\ \A a \in DOMAIN present : present'[a] = present[a]
                  /\ present'[pg].val = IF off < FileSize THEN fdata[v.f][off \div PGSIZE] ELSE 0
                  /\ present'[pg].perm < 2 * PTE_U
                  /\ HasBit(present'[pg].perm, PTE_U)
                  /\ HasBit(present'[pg].perm, PTE_R) <=> HasBit(v.prot, PROT_READ)
                  /\ HasBit(present'[pg].perm, PTE_W) <=> HasBit(v.prot, PROT_WRITE)
                  /\ HasBit(present'[pg].perm, PTE_X) <=> HasBit(v.prot, PROT_EXEC)]_vars

\* A fault inside the second page of the shared mapping at file offset PGSIZE has
\* mapped the third chunk of the file, readable and writable.
C34_Witness ==
  /\ mcall.op = "fault" /\ mcall.ret = 0 /\ mcall.addr % PGSIZE = 8
  /\ \E i \in Slots :
       /\ vmas[i].used = 1 /\ vmas[i].offset = PGSIZE
       /\ PGROUNDDOWN(mcall.addr) = vmas[i].addr + PGSIZE
       /\ PGROUNDDOWN(mcall.addr) \in DOMAIN present
       /\ present[PGROUNDDOWN(mcall.addr)] = [val |-> FileInit(2), perm |-> PTE_U + PTE_R + PTE_W]

\* ================================================================== FSCALL claims
\* The directory entries that refer to inode i.
Entries(i) == Cardinality({n \in Names : dirent[n] = i})
               + Cardinality({d \in Inodes : subdir[d] = i})

\* The link calls that have raised the nlink of inode i and not yet added their
\* directory entry or taken the increment back.
InFlight(i) == Cardinality({t \in Threads : fpc[t] = "link_dir" /\ flink[t].ip = i})

\* A successful unlink of name n.
UnlinkOf(n) == dirent[n] # 0 /\ dirent'[n] = 0

\* C25: File linkage.  At every moment the nlink of a file inode is the number of
\* directory entries that refer to it plus the link calls in flight on it, so
\* between calls it is the number of entries; no entry refers to a free inode; and
\* an unlink of one of the two names of a file with nlink 2 leaves the file with
\* nlink 1, reachable by its other name.
C25_FileLinkage ==
  /\ [](\A i \in Inodes :
         /\ itype[i] = T_FILE => nlink[i] = Entries(i) + InFlight(i)
         /\ itype[i] = 0 => nlink[i] = 0 /\ Entries(i) = 0)
  /\ [][\A n \in Names :
          UnlinkOf(n) /\ itype[dirent[n]] = T_FILE /\ nlink[dirent[n]] = 2
                      /\ InFlight(dirent[n]) = 0
          => /\ itype'[dirent[n]] = T_FILE
             /\ nlink'[dirent[n]] = 1
             /\ \E m \in Names \ {n} : dirent'[m] = dirent[n]]_vars

\* A file that had two names has lost one by unlink and is reachable by the other.
C25_Witness ==
  /\ fcall.op = "unlink" /\ fcall.ret = 0 /\ fcall.nl0 = 2
  /\ \A t \in Threads : fpc[t] = "idle"
  /\ \E i \in Inodes : itype[i] = T_FILE /\ nlink[i] = 1 /\ Entries(i) = 1

\* The step in which thread t returns -1 from link.
LinkFails(t) ==
  /\ fcall'.op = "link" /\ fcall'.ret = -1
  /\ \/ fpc[t] # "idle" /\ fpc'[t] = "idle"
     \/ fpc[t] = "idle" /\ fpc' = fpc /\ fcall' # fcall

\* C26: a link call that returns -1 has added no directory entry and leaves every
\* nlink as it was before the call: a call that fails before its increment changes
\* nothing, and one that fails after it takes exactly its own increment back.
C26_LinkFailure ==
  [][\A t \in Threads :
       LinkFails(t) =>
         /\ dirent' = dirent
         /\ \A i \in Inodes :
              nlink'[i] = IF fpc[t] = "link_dir" /\ flink[t].ip = i
                          THEN nlink[i] - 1 ELSE nlink[i]]_vars

\* A link has failed after its increment, and the file has as many links as names.
C26_Witness ==
  /\ fcall.op = "link" /\ fcall.ret = -1 /\ fcall.why = "bad"
  /\ \A t \in Threads : fpc[t] = "idle"
  /\ \E i \in Inodes : itype[i] = T_FILE /\ nlink[i] = 1 /\ Entries(i) = 1

\* The step is a call of unlink that has returned; its path is fcall'.path.
UnlinkStep ==
  /\ fcall'.op = "unlink" /\ fpc' = fpc
  /\ <<fcall, dirent, subdir, nlink>>' # <<fcall, dirent, subdir, nlink>>

\* The directory entries, as one function of the directory's inode and the name.
DirEntry(st_dirent, st_subdir, dp, name) ==
  IF dp = ROOTINO THEN (IF name \in Names THEN st_dirent[name] ELSE 0)
  ELSE IF name = "x" THEN st_subdir[dp] ELSE 0

DirKeys == {<<ROOTINO, n>> : n \in Names} \cup {<<d, "x">> : d \in Inodes \ {ROOTINO}}

\* C35: unlink rules.  unlink(path) returns -1 and changes no directory entry and
\* no nlink when the last element is "." or "..", when the parent directory or the
\* name does not exist, or when the target is a directory with an entry; in every
\* other case it returns 0, zeroes the entry of the target and no other, takes one
\* off the nlink of the target, and takes one off the nlink of the parent exactly
\* when the target is a directory.
C35_UnlinkRules ==
  [][UnlinkStep =>
       LET p == fcall'.path
           name == lastname(p)
           dp == nameiparent(p)
           ip == IF dp = 0 THEN 0 ELSE DirEntry(dirent, subdir, dp, name)
           refused == \/ name \in {".", ".."}
                      \/ ip = 0
                      \/ itype[ip] = T_DIR /\ subdir[ip] # 0
       IN IF refused
          THEN fcall'.ret = -1 /\ dirent' = dirent /\ subdir' = subdir /\ nlink' = nlink
          ELSE /\ fcall'.ret = 0
               /\ \A k \in DirKeys :
                    DirEntry(dirent', subdir', k[1], k[2]) =
                      IF k = <<dp, name>> THEN 0 ELSE DirEntry(dirent, subdir, k[1], k[2])
               /\ nlink'[ip] = nlink[ip] - 1
               /\ nlink'[dp] = IF itype[ip] = T_DIR THEN nlink[dp] - 1 ELSE nlink[dp]
               /\ \A i \in Inodes \ {ip, dp} : nlink'[i] = nlink[i]]_vars

\* The empty directory "d" has been unlinked: the root has no entry "d", the inode
\* is free, and the root is back at the one link it started with.
C35_Witness ==
  /\ fcall.op = "unlink" /\ fcall.ret = 0 /\ fcall.path = "d" /\ fcall.nl0 = 1
  /\ dirent["d"] = 0
  /\ nlink[ROOTINO] = 1
  /\ \E n \in Names : dirent[n] # 0 /\ itype[dirent[n]] = T_FILE

\* unlink of the directory "d" has been refused while "d" holds the entry "x".
C35_WitnessRefused ==
  /\ fcall.op = "unlink" /\ fcall.ret = -1 /\ fcall.path = "d"
  /\ dirent["d"] # 0 /\ itype[dirent["d"]] = T_DIR /\ subdir[dirent["d"]] # 0

\* ================================================================== TXN claims
\* The process has at most one transaction open; after every operation on an
\* inode the transaction is open, as it is while an inode is locked; a system call
\* that has returned has closed its transaction with one end_op and holds no inode.
Bracketed ==
  /\ outstanding \in {0, 1}
  /\ (lastop[1] \in InodeOps) => (outstanding = 1)
  /\ (ilocked # {}) => (outstanding = 1)
  /\ (logpc.at = "ret") => (outstanding = 0 /\ nend = nbegin /\ nbegin <= 1 /\ ilocked = {})

\* An inode that is locked is not locked again.
LockOnce == (lastop'[1] = "ilock" /\ lastop' # lastop) => (lastop'[2] \notin ilocked)

\* C32: Transaction bracketing.  On every return path of link, unlink, open, mkdir,
\* mknod, chdir and the write-back of munmap the begin_op is followed by exactly
\* one end_op before the call returns, every operation on an inode, modifying or
\* not, runs while the transaction is open, and every inode the call locks is
\* unlocked, once, before it returns.
C32_Bracketing == []Bracketed /\ [][LockOnce]_vars

\* A link has failed at its bad label: it has returned -1 after two changes of
\* nlink with their iupdate and the dirlink between them, with one end_op.
C32_Witness ==
  /\ logpc = [call |-> "link", at |-> "ret"]
  /\ lastop = <<"return", "-1">>
  /\ nmods >= 5
  /\ nbegin = 1 /\ nend = 1

\* ================================================================== RX claims
\* C28: Leaf locks.  The interrupt thread takes no lock while it holds netlock or
\* e1000_lock: neither of them is ever below another lock in the list of the locks
\* it holds.
C28_LeafLocks ==
  \A k \in 1..(Len(rheld) - 1) : rheld[k] \notin {"netlock", "e1000_lock"}

\* net_rx runs: from the call in e1000_recv until e1000_recv takes its lock again.
InNetRx ==
  \/ rpc \in {"net_rx", "ip_rx", "iprx_pkt", "wakeup", "wakeup_locked", "arp_tx",
              "arp_sent", "recv_reacq"}
  \/ rpc \in {"kalloc", "kalloc_locked", "kfree", "kfree_locked"} /\ rret # "recv_replace"

\* The pages the network stack owns: the frame net_rx works on and the frames and
\* entries of the socket queue.
StackOwned ==
  (IF InNetRx /\ rpc # "recv_reacq" THEN {rbuf} ELSE {})
  \cup {rqueue[k][1] : k \in 1..Len(rqueue)} \cup {rqueue[k][2] : k \in 1..Len(rqueue)}

\* C29: RX hand-off.  While net_rx runs e1000_recv does not hold e1000_lock, unless
\* net_rx itself has taken it in e1000_transmit; when a buffer is passed to net_rx
\* its slot holds another page, which is not free and not owned by the stack, with
\* status 0, and RDT is that slot; no page is at once posted in a slot and owned by
\* the stack; and the buffers reach net_rx in the order the device filled them,
\* every one once.
C29_RxHandOff ==
  /\ InNetRx /\ rpc \notin {"arp_sent"} /\ ~(rret = "arp_sent")
       => \A k \in 1..Len(rheld) : rheld[k] # "e1000_lock"
  /\ rpc = "net_rx" =>
       /\ rx_bufs[rslot] # rbuf
       /\ rx_bufs[rslot] \notin rfree
       /\ rx_ring[rslot].addr = rx_bufs[rslot]
       /\ rx_ring[rslot].status = 0
       /\ regRDT = rslot
       /\ rxdata[rbuf] = ndelivered
  /\ \A i \in RxSlots : rx_bufs[i] \notin StackOwned /\ rx_bufs[i] \notin rfree
  /\ \A i, j \in RxSlots : i # j => rx_bufs[i] # rx_bufs[j]

\* The ring has gone round: a buffer is passed to net_rx from a slot that has
\* been used before, while a packet waits in the socket queue.
C29_Witness ==
  /\ rpc = "net_rx"
  /\ ndelivered > RX_RING_SIZE
  /\ rqueue # <<>>

\* The pages of the socket queue: the frame and the entry of every packet.
QueuePages == [k \in 1..(2 * Len(rqueue)) |-> rqueue[(k + 1) \div 2][2 - (k % 2)]]

\* How often page p is linked into the socket queue.
TimesQueued(p) == Cardinality({k \in DOMAIN QueuePages : QueuePages[k] = p})

\* No page is freed twice or queued twice: a page the interrupt thread is about to
\* free is not free, not queued and not posted; the buffer of a net_rx that has
\* returned is free or linked once into the queue; a queued page is queued once
\* and is not free.
RxOwned ==
  /\ (rpc \in {"kfree", "kfree_locked"} /\ rarg # 0) =>
       /\ rarg \notin rfree
       /\ TimesQueued(rarg) = 0
       /\ \A i \in RxSlots : rx_bufs[i] # rarg
  /\ (rpc = "recv_reacq") =>
       \/ rbuf \in rfree /\ TimesQueued(rbuf) = 0
       \/ rbuf \notin rfree /\ TimesQueued(rbuf) = 1
  /\ \A p \in RxPages : TimesQueued(p) <= 1 /\ (TimesQueued(p) = 1 => p \notin rfree)

\* A recv that takes the first packet off the queue frees its frame and its entry,
\* two pages that were not free.
RecvFreesBoth ==
  (Len(rqueue') < Len(rqueue)) =>
     /\ rqueue[1][1] # rqueue[1][2]
     /\ rfree \cap {rqueue[1][1], rqueue[1][2]} = {}
     /\ rfree' = rfree \cup {rqueue[1][1], rqueue[1][2]}
     /\ rqueue' = Tail(rqueue)

SpinsHeld(t) ==
  {<<"bucket", i>> : i \in {j \in Buckets : bklock[j] = t}}
    \cup (IF bclock = t THEN {<<"bcache", 0>>} ELSE {})
    \cup (IF netlock = t THEN {<<"netlock", 0>>} ELSE {})

\* C30: No suspension under a spinlock.  A thread that is about to take or waits
\* for the sleep-lock of a buffer in bget holds no spinlock; a thread that calls
\* sleep in recv holds netlock, the lock it passes to sleep, and no other; and a
\* thread that sleeps in recv, or waits to be scheduled after wakeup, holds none.
C30_NoSuspension ==
  \A t \in Threads :
    /\ pc[t] = "bget_sleep" => SpinsHeld(t) = {}
    /\ upc[t] = "recv_loop" => SpinsHeld(t) = {<<"netlock", 0>>}
    /\ upc[t] \in {"recv_sleep", "recv_woken"} => SpinsHeld(t) = {}

\* One process sleeps in recv while another has left the spinlocks of bget behind
\* and is about to take the sleep-lock of its buffer.
C30_Witness ==
  \E t, u \in Threads :
    /\ upc[t] = "recv_sleep"
    /\ pc[u] = "bget_sleep"
    /\ lb[u] # 0

====
